---- MODULE Spec2Model ----
(***************************************************************************)
(* Model of the article authoring tool (src/App.tsx and                    *)
(* src/services/geminiService.ts): the streaming assembler of              *)
(* handleGenerate, the image set handlers, and the service helpers          *)
(* retryWithBackoff and generateImage.                                      *)
(*                                                                         *)
(* Text is a sequence of one-character strings; an image URL is a number   *)
(* (NoImage stands for null / undefined).  The sidebar (App.tsx:910-922)   *)
(* lets the user reach every view at any time, so the view is not part of  *)
(* the state: every control is taken to be reachable whenever its own      *)
(* rendering condition holds.                                              *)
(***************************************************************************)
EXTENDS Integers, Sequences, FiniteSets, Bags, TLC

(* ---------------- bounds of the model ---------------- *)
MaxFragments == 2
MaxPending == 2
MaxNumImages == 2
NumUrls == 2
MaxTextLen == 3
MaxInsertPos == 2
MaxLines == 3

(* ---------------- program constants ---------------- *)
RENDER_THROTTLE_MS == 32
MaxImageCount == 5
DefaultRetries == 3
DefaultDelay == 1000

(* Date.now() at page load: any value above the throttle interval. *)
StartTime == 1000
NoImage == 0
Urls == 1..NumUrls
Fragments == {<<"a">>, <<"b">>}
ArrivalGaps == {RENDER_THROTTLE_MS, RENDER_THROTTLE_MS + 1}
Topics == {"t"}
EditTexts == {<<"u">>}
Null == "null"

VARIABLES
    config,
    savedArticles,
    isGenerating,
    generatedContent,
    generatedImageUrls,
    selectedImageIndex,
    isGeneratingImage,
    isEditingImage,
    imageGenerationError,
    isEditingContent,
    showImageMaskEditor,
    genPc,
    contentBuffer,
    lastUpdateTime,
    nChunks,
    pending,
    delivered,
    lastFlushed,
    lastWriter,
    superseded,
    coverAt,
    selectionStart,
    selectionEnd,
    insertArg,
    showInsertImageModal,
    insertImageCursorPos,
    editTrace,
    autosaveDraft,
    mdLines,
    mdBlocks,
    mdPc,
    mdParser,
    mdIndex,
    htmlBlocks,
    htmlPc,
    alertText,
    selectArg,
    retryPc,
    retries,
    delay,
    attempts,
    waits,
    error,
    result,
    imagePc,
    count,
    promises,
    results,
    iterPc,
    consumed,
    onChunkCalls

docVars == <<generatedContent, generatedImageUrls, selectedImageIndex>>
flagVars == <<isGenerating, isGeneratingImage, isEditingImage, imageGenerationError,
              isEditingContent, showImageMaskEditor>>
streamVars == <<genPc, contentBuffer, lastUpdateTime, nChunks>>
ghostVars == <<delivered, lastFlushed, lastWriter, superseded>>
appVars == <<config, savedArticles, docVars, flagVars, streamVars, pending, ghostVars>>
retryVars == <<retryPc, retries, delay, attempts, waits, error, result>>
imageVars == <<imagePc, count, promises, results>>
iterVars == <<iterPc, consumed, onChunkCalls>>
serviceVars == <<retryVars, imageVars, iterVars>>
editorVars == <<selectionStart, selectionEnd, insertArg>>
insertVars == <<showInsertImageModal, insertImageCursorPos>>
markdownVars == <<mdLines, mdBlocks, mdPc, mdParser, mdIndex, htmlBlocks, htmlPc>>
otherVars == <<editorVars, insertVars, editTrace, autosaveDraft, markdownVars, alertText>>

(* ---------------- helpers ---------------- *)
RECURSIVE Concat(_)
Concat(fs) == IF fs = <<>> THEN <<>> ELSE Head(fs) \o Concat(Tail(fs))

Max(a, b) == IF a >= b THEN a ELSE b
Min(a, b) == IF a <= b THEN a ELSE b

SeqsUpTo(S, n) == UNION {[1..k -> S] : k \in 0..n}

\* const safeCount = Math.max(1, Math.min(count, 5));
SafeCount_NoLowerBound(n) == Min(n, MaxImageCount)
SafeCount(n) == Max(1, Min(n, MaxImageCount))

\* (generatedImageUrls && generatedImageUrls[selectedImageIndex]) || null
CurrentImageUrlOf(urls, idx) ==
    IF idx >= 0 /\ idx < Len(urls) THEN urls[idx + 1] ELSE NoImage

currentImageUrl == CurrentImageUrlOf(generatedImageUrls, selectedImageIndex)

\* The mask editor is a full-screen modal, rendered when both hold.
MaskEditorOpen == showImageMaskEditor /\ currentImageUrl # NoImage
\* A full-screen modal (mask editor or insert-image dialog) covers the page.
ModalOpen == MaskEditorOpen \/ showInsertImageModal

Request(kind, n, urls, idx) ==
    [kind |-> kind, count |-> n, own |-> kind = "cover", stale |-> FALSE,
     urls |-> urls, idx |-> idx, text |-> <<>>]

PendingSet == BagToSet(pending)
AddRequest(r) == pending (+) SetToBag({r})
RemoveRequest(b, r) == b (-) SetToBag({r})

\* A request in flight whose session has been superseded; a new handleGenerate
\* also stops awaiting the cover request of the previous invocation.
MarkStale(r, disown) ==
    [r EXCEPT !.stale = TRUE, !.own = IF disown THEN FALSE ELSE r.own]

RECURSIVE MarkAllStale(_, _, _)
MarkAllStale(b, disown, acc) ==
    IF BagToSet(b) = {} THEN acc
    ELSE LET r == CHOOSE x \in BagToSet(b) : TRUE
             one == SetToBag({r})
         IN MarkAllStale(b (-) one, disown, acc (+) SetToBag({MarkStale(r, disown)}))

\* Every request in flight now belongs to a superseded session.
Supersede(b) == MarkAllStale(b, FALSE, EmptyBag)
SupersedeAndDisown(b) == MarkAllStale(b, TRUE, EmptyBag)

OwnCoverPending(b) == \E r \in BagToSet(b) : r.kind = "cover" /\ r.own

(* ---------------- initial state ---------------- *)
\* No cover result has reached the running handleGenerate yet; clean tells
\* that no request was in flight when it started.
NoCover == [clean |-> TRUE, phase |-> "none", chunks |-> 0, urls |-> <<>>]
NoDraft == [topic |-> "", content |-> <<>>, imageUrls |-> <<>>]
Drafts == {NoDraft, [topic |-> "t", content |-> <<"d">>, imageUrls |-> <<1, 2>>]}

StoredArticles ==
    << [topic |-> "t", content |-> <<"s">>, imageUrl |-> 1],
       [topic |-> "t", content |-> <<"s">>, imageUrl |-> NoImage] >>

AppStart(draft) ==
        /\ config = [topic |-> draft.topic, generateImage |-> FALSE, numberOfImages |-> 1]
        /\ savedArticles = StoredArticles
        /\ isGenerating = FALSE
        /\ generatedContent = draft.content
        /\ generatedImageUrls = draft.imageUrls
        /\ selectedImageIndex = 0
        /\ isGeneratingImage = FALSE
        /\ isEditingImage = FALSE
        /\ imageGenerationError = Null
        /\ isEditingContent = FALSE
        /\ showImageMaskEditor = FALSE
        /\ genPc = "idle"
        /\ contentBuffer = <<>>
        /\ lastUpdateTime = 0
        /\ nChunks = 0
        /\ pending = EmptyBag
        /\ delivered = <<>>
        /\ lastFlushed = <<>>
        /\ lastWriter = "init"
        /\ superseded = FALSE
        /\ coverAt = NoCover

AppInit == \E draft \in Drafts : AppStart(draft)

(* ---------------- configuration form ---------------- *)
SetTopic(t) ==
    /\ ~ModalOpen
    /\ config' = [config EXCEPT !.topic = t]
    /\ UNCHANGED <<savedArticles, docVars, flagVars, streamVars, pending, ghostVars>>

SetGenerateImage(b) ==
    /\ ~ModalOpen
    /\ config' = [config EXCEPT !.generateImage = b]
    /\ UNCHANGED <<savedArticles, docVars, flagVars, streamVars, pending, ghostVars>>

SetNumberOfImages(n) ==
    /\ ~ModalOpen
    /\ config.generateImage
    /\ config' = [config EXCEPT !.numberOfImages = n]
    /\ UNCHANGED <<savedArticles, docVars, flagVars, streamVars, pending, ghostVars>>

(* ---------------- handleGenerate ---------------- *)
\* disabled={!config.topic || isGenerating} of the Generate Article button
GenerateDisabled_TopicOnly == config.topic = ""
GenerateDisabled == config.topic = "" \/ isGenerating

HandleGenerate ==
    /\ ~ModalOpen
    /\ ~GenerateDisabled
    /\ config.topic # ""
    /\ isGenerating' = TRUE
    /\ generatedContent' = <<>>
    /\ generatedImageUrls' = <<>>
    /\ selectedImageIndex' = 0
    /\ isEditingContent' = FALSE
    /\ IF config.generateImage
       THEN /\ BagCardinality(pending) < MaxPending
            /\ isGeneratingImage' = TRUE
            /\ pending' = SupersedeAndDisown(pending)
                            (+) SetToBag({Request("cover", config.numberOfImages, <<>>, 0)})
       ELSE /\ isGeneratingImage' = isGeneratingImage
            /\ pending' = SupersedeAndDisown(pending)
    /\ contentBuffer' = <<>>
    /\ lastUpdateTime' = 0
    /\ nChunks' = 0
    /\ genPc' = "stream"
    /\ delivered' = <<>>
    /\ lastFlushed' = <<>>
    /\ lastWriter' = "start"
    /\ superseded' = FALSE
    /\ UNCHANGED <<config, savedArticles, isEditingImage, imageGenerationError,
                   showImageMaskEditor>>

\* The values Date.now() may return to a session whose last flush was at
\* time last: the clock never runs backwards and the page was loaded at
\* StartTime; the gaps straddle the throttle interval.
DateNow(last) == {Max(last, StartTime) + gap : gap \in ArrivalGaps}

\* now - lastUpdateTime > RENDER_THROTTLE_MS
ThrottleElapsed_AtLeast(t, last) == t - last >= RENDER_THROTTLE_MS
ThrottleElapsed(t, last) == t - last > RENDER_THROTTLE_MS

\* contentBuffer += chunk
AppendChunk_Prepend(buffer, chunk) == chunk \o buffer
AppendChunk_Overwrite(buffer, chunk) == chunk
AppendChunk(buffer, chunk) == buffer \o chunk

OnChunk_KeepsEdit(chunk, t) ==
    /\ genPc = "stream"
    /\ nChunks < MaxFragments
    /\ t \in DateNow(lastUpdateTime)
    /\ nChunks' = nChunks + 1
    /\ contentBuffer' = AppendChunk(contentBuffer, chunk)
    /\ delivered' = Append(delivered, chunk)
    /\ IF ThrottleElapsed(t, lastUpdateTime)
       THEN /\ generatedContent' =
                 IF lastWriter = "edit" THEN generatedContent \o chunk ELSE contentBuffer'
            /\ lastUpdateTime' = t
            /\ lastFlushed' = contentBuffer'
            /\ lastWriter' = "flush"
       ELSE UNCHANGED <<generatedContent, lastUpdateTime, lastFlushed, lastWriter>>
    /\ UNCHANGED <<config, savedArticles, generatedImageUrls, selectedImageIndex,
                   flagVars, genPc, pending, superseded>>

\* The callback passed to streamArticleGeneration, run for a chunk with text,
\* Date.now() returning t.
OnChunk(chunk, t) ==
    /\ genPc = "stream"
    /\ nChunks < MaxFragments
    /\ t \in DateNow(lastUpdateTime)
    /\ nChunks' = nChunks + 1
    /\ contentBuffer' = AppendChunk(contentBuffer, chunk)
    /\ delivered' = Append(delivered, chunk)
    /\ IF ThrottleElapsed(t, lastUpdateTime)
       THEN /\ generatedContent' = contentBuffer'
            /\ lastUpdateTime' = t
            /\ lastFlushed' = contentBuffer'
            /\ lastWriter' = "flush"
       ELSE UNCHANGED <<generatedContent, lastUpdateTime, lastFlushed, lastWriter>>
    /\ UNCHANGED <<config, savedArticles, generatedImageUrls, selectedImageIndex,
                   flagVars, genPc, pending, superseded>>

\* if (chunk.text) is false: the chunk is skipped.
OnEmptyChunk ==
    /\ genPc = "stream"
    /\ nChunks < MaxFragments
    /\ nChunks' = nChunks + 1
    /\ UNCHANGED <<config, savedArticles, docVars, flagVars, genPc, contentBuffer,
                   lastUpdateTime, pending, ghostVars>>

StreamEnd_NoAwait ==
    /\ genPc = "stream"
    /\ generatedContent' = contentBuffer
    /\ lastWriter' = "final"
    /\ genPc' = "done"
    /\ isGenerating' = FALSE
    /\ UNCHANGED <<config, savedArticles, generatedImageUrls, selectedImageIndex,
                   isGeneratingImage, isEditingImage, imageGenerationError,
                   isEditingContent, showImageMaskEditor, contentBuffer,
                   lastUpdateTime, nChunks, pending, delivered, lastFlushed, superseded>>

StreamEnd_ClearsImages ==
    /\ genPc = "stream"
    /\ generatedContent' = contentBuffer
    /\ generatedImageUrls' = <<>>
    /\ lastWriter' = "final"
    /\ IF OwnCoverPending(pending)
       THEN /\ genPc' = "image"
            /\ isGenerating' = isGenerating
       ELSE /\ genPc' = "done"
            /\ isGenerating' = FALSE
    /\ UNCHANGED <<config, savedArticles, selectedImageIndex,
                   isGeneratingImage, isEditingImage, imageGenerationError,
                   isEditingContent, showImageMaskEditor, contentBuffer,
                   lastUpdateTime, nChunks, pending, delivered, lastFlushed, superseded>>

\* The stream terminates normally: line 466, then "if (imagePromise) await imagePromise".
StreamEnd ==
    /\ genPc = "stream"
    /\ generatedContent' = contentBuffer
    /\ lastWriter' = "final"
    /\ IF OwnCoverPending(pending)
       THEN /\ genPc' = "image"
            /\ isGenerating' = isGenerating
       ELSE /\ genPc' = "done"
            /\ isGenerating' = FALSE
    /\ UNCHANGED <<config, savedArticles, generatedImageUrls, selectedImageIndex,
                   isGeneratingImage, isEditingImage, imageGenerationError,
                   isEditingContent, showImageMaskEditor, contentBuffer,
                   lastUpdateTime, nChunks, pending, delivered, lastFlushed, superseded>>

StreamFail_ClearsText ==
    /\ genPc = "stream"
    /\ genPc' = "failed"
    /\ isGenerating' = FALSE
    /\ generatedContent' = <<>>
    /\ UNCHANGED <<config, savedArticles, generatedImageUrls, selectedImageIndex,
                   isGeneratingImage, isEditingImage,
                   imageGenerationError, isEditingContent, showImageMaskEditor,
                   contentBuffer, lastUpdateTime, nChunks, pending, ghostVars>>

\* streamArticleGeneration rejects: catch (console.error), finally.
StreamFail ==
    /\ genPc = "stream"
    /\ genPc' = "failed"
    /\ isGenerating' = FALSE
    /\ UNCHANGED <<config, savedArticles, docVars, isGeneratingImage, isEditingImage,
                   imageGenerationError, isEditingContent, showImageMaskEditor,
                   contentBuffer, lastUpdateTime, nChunks, pending, ghostVars>>

\* Resumption of handleGenerate after "await imagePromise".
AfterImagePromise(r) ==
    IF genPc = "image" /\ r.own
    THEN genPc' = "done" /\ isGenerating' = FALSE
    ELSE UNCHANGED <<genPc, isGenerating>>

\* .then(urls => ...) of the cover request of handleGenerate
CoverResolve(r, urls) ==
    /\ r \in PendingSet
    /\ r.kind = "cover"
    /\ Len(urls) <= SafeCount(r.count)
    /\ pending' = RemoveRequest(pending, r)
    /\ IF Len(urls) = 0
       THEN /\ imageGenerationError' = "Could not generate image"
            /\ generatedImageUrls' = generatedImageUrls
       ELSE /\ generatedImageUrls' = urls
            /\ imageGenerationError' = imageGenerationError
    /\ isGeneratingImage' = FALSE
    /\ AfterImagePromise(r)
    /\ UNCHANGED <<config, savedArticles, generatedContent, selectedImageIndex,
                   isEditingImage, isEditingContent, showImageMaskEditor,
                   contentBuffer, lastUpdateTime, nChunks, ghostVars>>

CoverReject_FailsSession(r) ==
    /\ r \in PendingSet
    /\ r.kind = "cover"
    /\ pending' = RemoveRequest(pending, r)
    /\ imageGenerationError' = "Failed to generate image"
    /\ isGeneratingImage' = FALSE
    /\ IF r.own /\ genPc \in {"stream", "image"}
       THEN genPc' = "failed" /\ isGenerating' = FALSE
       ELSE UNCHANGED <<genPc, isGenerating>>
    /\ UNCHANGED <<config, savedArticles, docVars, isEditingImage, isEditingContent,
                   showImageMaskEditor, contentBuffer, lastUpdateTime, nChunks,
                   ghostVars>>

\* .catch(err => ...) of the cover request of handleGenerate
CoverReject(r) ==
    /\ r \in PendingSet
    /\ r.kind = "cover"
    /\ pending' = RemoveRequest(pending, r)
    /\ imageGenerationError' = "Failed to generate image"
    /\ isGeneratingImage' = FALSE
    /\ AfterImagePromise(r)
    /\ UNCHANGED <<config, savedArticles, docVars, isEditingImage, isEditingContent,
                   showImageMaskEditor, contentBuffer, lastUpdateTime, nChunks,
                   ghostVars>>

(* ---------------- handleGenerateImage ---------------- *)
\* Where the handler is offered: "Regenerate" on the cover (hidden under the
\* spinner overlay while isEditingImage or isGeneratingImage), or, without a
\* current image, "Try Again" on the error panel and "Generate Cover Image".
GenerateImageOffered ==
    IF currentImageUrl # NoImage
    THEN ~(isEditingImage \/ isGeneratingImage)
    ELSE imageGenerationError # Null \/ ~isGeneratingImage

HandleGenerateImage ==
    /\ ~ModalOpen
    /\ GenerateImageOffered
    /\ config.topic # ""
    /\ BagCardinality(pending) < MaxPending
    /\ isGeneratingImage' = TRUE
    /\ imageGenerationError' = Null
    /\ generatedImageUrls' = <<>>
    /\ selectedImageIndex' = 0
    /\ pending' = AddRequest(Request("regen", config.numberOfImages, <<>>, 0))
    /\ UNCHANGED <<config, savedArticles, generatedContent, isGenerating, isEditingImage,
                   isEditingContent, showImageMaskEditor, streamVars, ghostVars>>

RegenResolve(r, urls) ==
    /\ r \in PendingSet
    /\ r.kind = "regen"
    /\ Len(urls) <= SafeCount(r.count)
    /\ pending' = RemoveRequest(pending, r)
    /\ IF Len(urls) = 0
       THEN /\ imageGenerationError' = "Failed to generate images. Please try again."
            /\ generatedImageUrls' = generatedImageUrls
       ELSE /\ generatedImageUrls' = urls
            /\ imageGenerationError' = imageGenerationError
    /\ isGeneratingImage' = FALSE
    /\ UNCHANGED <<config, savedArticles, generatedContent, selectedImageIndex,
                   isGenerating, isEditingImage, isEditingContent, showImageMaskEditor,
                   streamVars, ghostVars>>

RegenReject(r) ==
    /\ r \in PendingSet
    /\ r.kind = "regen"
    /\ pending' = RemoveRequest(pending, r)
    /\ imageGenerationError' = "Error communicating with image service."
    /\ isGeneratingImage' = FALSE
    /\ UNCHANGED <<config, savedArticles, docVars, isGenerating, isEditingImage,
                   isEditingContent, showImageMaskEditor, streamVars, ghostVars>>

(* ---------------- thumbnail gallery ---------------- *)
\* onClick={() => setSelectedImageIndex(idx)}
SetSelectedImageIndex_First(idx) == 0
SetSelectedImageIndex(idx) == idx

\* Rendered inside the currentImageUrl branch, for generatedImageUrls.length > 1,
\* one button per index of the list.
SelectThumbnail(idx) ==
    /\ ~ModalOpen
    /\ currentImageUrl # NoImage
    /\ Len(generatedImageUrls) > 1
    /\ idx \in 0..(Len(generatedImageUrls) - 1)
    /\ selectedImageIndex' = SetSelectedImageIndex(idx)
    /\ UNCHANGED <<config, savedArticles, generatedContent, generatedImageUrls, flagVars,
                   streamVars, pending, ghostVars>>

(* ---------------- image edit ---------------- *)
\* startImageEdit with a non-empty prompt; the Edit button lies under the
\* spinner overlay while isEditingImage or isGeneratingImage.
StartImageEdit ==
    /\ ~ModalOpen
    /\ currentImageUrl # NoImage
    /\ ~(isEditingImage \/ isGeneratingImage)
    /\ showImageMaskEditor' = TRUE
    /\ UNCHANGED <<config, savedArticles, docVars, isGenerating, isGeneratingImage,
                   isEditingImage, imageGenerationError, isEditingContent, streamVars,
                   pending, ghostVars>>

CancelImageEdit ==
    /\ MaskEditorOpen
    /\ showImageMaskEditor' = FALSE
    /\ UNCHANGED <<config, savedArticles, docVars, isGenerating, isGeneratingImage,
                   isEditingImage, imageGenerationError, isEditingContent, streamVars,
                   pending, ghostVars>>

\* onSave of the mask editor; the request captures the image list and the
\* selected index of the render in which it was issued.
HandleEditImage ==
    /\ MaskEditorOpen
    /\ BagCardinality(pending) < MaxPending
    /\ showImageMaskEditor' = FALSE
    /\ isEditingImage' = TRUE
    /\ pending' = AddRequest(Request("edit", 1, generatedImageUrls, selectedImageIndex))
    /\ UNCHANGED <<config, savedArticles, docVars, isGenerating, isGeneratingImage,
                   imageGenerationError, isEditingContent, streamVars, ghostVars>>

\* newUrls = [...generatedImageUrls]; newUrls[selectedImageIndex] = newUrl
ReplaceAt(urls, idx, newUrl) == [urls EXCEPT ![idx + 1] = newUrl]

EditResolve(r, newUrl) ==
    /\ r \in PendingSet
    /\ r.kind = "edit"
    /\ pending' = RemoveRequest(pending, r)
    /\ generatedImageUrls' = ReplaceAt(r.urls, r.idx, newUrl)
    /\ isEditingImage' = FALSE
    /\ UNCHANGED <<config, savedArticles, generatedContent, selectedImageIndex,
                   isGenerating, isGeneratingImage, imageGenerationError,
                   isEditingContent, showImageMaskEditor, streamVars, ghostVars>>

\* editGeneratedImage returns null or throws: alert, finally.
EditNoResult_DropsImage(r, outcome) ==
    /\ r \in PendingSet
    /\ r.kind = "edit"
    /\ outcome \in {"null", "error"}
    /\ pending' = RemoveRequest(pending, r)
    /\ isEditingImage' = FALSE
    /\ generatedImageUrls' = <<>>
    /\ UNCHANGED <<config, savedArticles, generatedContent, selectedImageIndex,
                   isGenerating, isGeneratingImage, imageGenerationError,
                   isEditingContent, showImageMaskEditor, streamVars, ghostVars>>
EditNoResult(r, outcome) ==
    /\ r \in PendingSet
    /\ r.kind = "edit"
    /\ outcome \in {"null", "error"}
    /\ pending' = RemoveRequest(pending, r)
    /\ isEditingImage' = FALSE
    /\ UNCHANGED <<config, savedArticles, docVars, isGenerating, isGeneratingImage,
                   imageGenerationError, isEditingContent, showImageMaskEditor,
                   streamVars, ghostVars>>

(* ---------------- saved articles, manual editing ---------------- *)
\* onClick of a dashboard card (981) and of "Open Article" in the history (1520)
OpenArticle(article) ==
    /\ ~ModalOpen
    /\ generatedContent' = article.content
    /\ generatedImageUrls' =
          IF article.imageUrl # NoImage THEN <<article.imageUrl>> ELSE <<>>
    /\ config' = [config EXCEPT !.topic = article.topic]
    /\ pending' = Supersede(pending)
    /\ superseded' = (superseded \/ genPc \in {"stream", "image"})
    /\ lastWriter' = "open"
    /\ UNCHANGED <<savedArticles, selectedImageIndex, flagVars, streamVars,
                   delivered, lastFlushed>>

ToggleEdit ==
    /\ ~ModalOpen
    /\ isEditingContent' = ~isEditingContent
    /\ UNCHANGED <<config, savedArticles, docVars, isGenerating, isGeneratingImage,
                   isEditingImage, imageGenerationError, showImageMaskEditor,
                   streamVars, pending, ghostVars>>

\* textarea onChange; the textarea is readOnly while isGeneratingImage.
UserEdit(text) ==
    /\ ~ModalOpen
    /\ isEditingContent
    /\ ~isGeneratingImage
    /\ text # generatedContent
    /\ generatedContent' = text
    /\ lastWriter' = "edit"
    /\ UNCHANGED <<config, savedArticles, generatedImageUrls, selectedImageIndex,
                   flagVars, streamVars, pending, delivered, lastFlushed, superseded>>

(* ---------------- specifications ---------------- *)
\* The configuration form.
ConfigNext ==
    \/ \E t \in Topics : SetTopic(t)
    \/ \E b \in BOOLEAN : SetGenerateImage(b)
    \/ \E n \in 1..MaxNumImages : SetNumberOfImages(n)

\* A generation session: handleGenerate, its stream and its cover request.
SessionNext ==
    \/ HandleGenerate
    \/ \E chunk \in Fragments, t \in DateNow(lastUpdateTime) : OnChunk(chunk, t)
    \/ OnEmptyChunk
    \/ StreamEnd
    \/ StreamFail
    \/ \E r \in PendingSet, urls \in SeqsUpTo(Urls, MaxNumImages) : CoverResolve(r, urls)
    \/ \E r \in PendingSet : CoverReject(r)

\* The other writers of the Document text.
WriterNext ==
    \/ \E i \in 1..Len(savedArticles) : OpenArticle(savedArticles[i])
    \/ ToggleEdit
    \/ \E text \in EditTexts : UserEdit(text)

\* The image set: regeneration, selection and edit.
ImageNext ==
    \/ HandleGenerateImage
    \/ \E r \in PendingSet, urls \in SeqsUpTo(Urls, MaxNumImages) : RegenResolve(r, urls)
    \/ \E r \in PendingSet : RegenReject(r)
    \/ \E idx \in 0..(MaxImageCount - 1) : SelectThumbnail(idx)
    \/ StartImageEdit
    \/ CancelImageEdit
    \/ HandleEditImage
    \/ \E r \in PendingSet, newUrl \in Urls : EditResolve(r, newUrl)
    \/ \E r \in PendingSet, outcome \in {"null", "error"} : EditNoResult(r, outcome)

(* ---------------- retryWithBackoff (geminiService.ts) ---------------- *)
NoField == 0
NoValue == [value |-> 0, attempt |-> 0]
NoError == [status |-> NoField, code |-> NoField, message |-> <<>>, attempt |-> 0]

\* Error messages, as sequences of words.
Messages == {<<>>, <<"got", "503">>, <<"model", "Overloaded">>, <<"quota", "exceeded">>}
\* The errors an attempt may raise (attempt is filled in when it is raised).
ErrorShapes ==
    {[status |-> st, code |-> cd, message |-> m, attempt |-> 0] :
        st \in {NoField, 500, 503}, cd \in {NoField, 503}, m \in Messages}
Values == {1, 2}

ToLowerCase(word) == IF word \in {"Overloaded", "OVERLOADED"} THEN "overloaded" ELSE word
Includes(message, word) == \E k \in 1..Len(message) : message[k] = word
IncludesLower(message, word) == \E k \in 1..Len(message) : ToLowerCase(message[k]) = word

\* error?.status === 503 || error?.code === 503 ||
\* (message.includes('503') || message.toLowerCase().includes('overloaded'))
IsOverloaded(e) ==
    \/ e.status = 503
    \/ e.code = 503
    \/ Includes(e.message, "503")
    \/ IncludesLower(e.message, "overloaded")

\* if (retries > 0 && isOverloaded)
ShouldRetry_AnyError(r, e) == r > 0
ShouldRetry(r, e) == r > 0 /\ IsOverloaded(e)

\* retryWithBackoff(operation, retries - 1, delay * 2)
NextDelay_Linear(d) == d + DefaultDelay
NextDelay(d) == d * 2

\* retryWithBackoff(operation) has just called operation() for the first time.
RetryStart ==
    /\ retryPc = "call"
    /\ retries = DefaultRetries
    /\ delay = DefaultDelay
    /\ attempts = 1
    /\ waits = <<>>
    /\ error = NoError
    /\ result = NoValue

\* return await operation();
OperationSucceeds(v) ==
    /\ retryPc = "call"
    /\ retryPc' = "returned"
    /\ result' = [value |-> v, attempt |-> attempts]
    /\ UNCHANGED <<retries, delay, attempts, waits, error>>

\* catch (error): schedule the retry timer, or rethrow.
OperationFails(shape) ==
    /\ retryPc = "call"
    /\ error' = [shape EXCEPT !.attempt = attempts]
    /\ IF ShouldRetry(retries, error')
       THEN /\ retryPc' = "wait"
            /\ waits' = Append(waits, delay)
       ELSE /\ retryPc' = "thrown"
            /\ waits' = waits
    /\ UNCHANGED <<retries, delay, attempts, result>>

\* The timer fires: return retryWithBackoff(operation, retries - 1, delay * 2)
RetryAfterDelay ==
    /\ retryPc = "wait"
    /\ retryPc' = "call"
    /\ retries' = retries - 1
    /\ delay' = NextDelay(delay)
    /\ attempts' = attempts + 1
    /\ UNCHANGED <<waits, error, result>>

RetryNext ==
    \/ \E v \in Values : OperationSucceeds(v)
    \/ \E shape \in ErrorShapes : OperationFails(shape)
    \/ RetryAfterDelay

(* ---------------- streamArticleGeneration (geminiService.ts) ---------------- *)
\* No call of streamArticleGeneration is in progress.
IterIdle ==
    /\ iterPc = "idle"
    /\ consumed = 0
    /\ onChunkCalls = <<>>

\* streamArticleGeneration has called
\* retryWithBackoff(() => ai.models.generateContentStream(...)).
StreamArticleStart ==
    /\ RetryStart
    /\ iterPc = "request"
    /\ consumed = 0
    /\ onChunkCalls = <<>>

\* The errors the iterator of the response may raise: those of a request.
IterationErrors == ErrorShapes

\* const response = await retryWithBackoff(...): the request has resolved and
\* the for await loop begins at the first chunk of this response.
AwaitResponse ==
    /\ iterPc = "request"
    /\ retryPc = "returned"
    /\ iterPc' = "iterating"
    /\ consumed' = 0
    /\ UNCHANGED <<retryVars, onChunkCalls>>

\* retryWithBackoff has thrown: catch (console.error), throw error.
RequestRejects ==
    /\ iterPc = "request"
    /\ retryPc = "thrown"
    /\ iterPc' = "rejected"
    /\ UNCHANGED <<retryVars, consumed, onChunkCalls>>

\* One turn of the for await loop: the next chunk of the response, passed to
\* onChunk if chunk.text is set. A fragment is named by its position in the
\* response.
NextChunk(hasText) ==
    /\ iterPc = "iterating"
    /\ consumed < MaxFragments
    /\ consumed' = consumed + 1
    /\ onChunkCalls' = IF hasText THEN Append(onChunkCalls, consumed') ELSE onChunkCalls
    /\ UNCHANGED <<retryVars, iterPc>>

\* The response is exhausted: the loop ends and the promise resolves.
IterationEnds ==
    /\ iterPc = "iterating"
    /\ iterPc' = "resolved"
    /\ UNCHANGED <<retryVars, consumed, onChunkCalls>>

IterationFails_Retried(shape) ==
    /\ iterPc = "iterating"
    /\ error' = [shape EXCEPT !.attempt = attempts]
    /\ IF ShouldRetry(retries, error')
       THEN /\ retryPc' = "wait"
            /\ waits' = Append(waits, delay)
            /\ iterPc' = "request"
       ELSE /\ retryPc' = retryPc
            /\ waits' = waits
            /\ iterPc' = "rejected"
    /\ UNCHANGED <<retries, delay, attempts, result, consumed, onChunkCalls>>

\* The iterator throws inside the for await loop, which is outside the
\* operation given to retryWithBackoff: catch (console.error), throw error.
IterationFails(shape) ==
    /\ iterPc = "iterating"
    /\ error' = [shape EXCEPT !.attempt = attempts]
    /\ iterPc' = "rejected"
    /\ UNCHANGED <<retryPc, retries, delay, attempts, waits, result, consumed, onChunkCalls>>

(* ---------------- generateImage (geminiService.ts) ---------------- *)
Pending == -1
CountInputs == (-1)..(MaxImageCount + 2)

\* Array.from({ length: safeCount }, () => generateSingle())
IssueAll(n) == [k \in 1..n |-> Pending]

RECURSIVE FilterNonNull(_)
\* results.filter(url => url !== null)
FilterNonNull(rs) ==
    IF rs = <<>> THEN <<>>
    ELSE IF Head(rs) = NoImage THEN FilterNonNull(Tail(rs))
         ELSE <<Head(rs)>> \o FilterNonNull(Tail(rs))

ImageIdle ==
    /\ imagePc = "idle"
    /\ count = 1
    /\ promises = <<>>
    /\ results = <<>>

\* generateImage(promptText, size, aspectRatio, count) is called.
GenerateImageStart ==
    /\ imagePc = "called"
    /\ count \in CountInputs
    /\ promises = <<>>
    /\ results = <<>>

\* const safeCount = ...; const promises = Array.from(...)
GenerateImageIssue ==
    /\ imagePc = "called"
    /\ promises' = IssueAll(SafeCount(count))
    /\ imagePc' = "waiting"
    /\ UNCHANGED <<count, results>>

\* generateSingle settles: the data URL of the first inlineData part, or null
\* (no inlineData part, or an error caught inside generateSingle).
GenerateSingleSettles(k, url) ==
    /\ imagePc = "waiting"
    /\ k \in 1..Len(promises)
    /\ promises[k] = Pending
    /\ promises' = [promises EXCEPT ![k] = url]
    /\ UNCHANGED <<imagePc, count, results>>

\* const results = await Promise.all(promises); return results.filter(...)
GenerateImageReturn ==
    /\ imagePc = "waiting"
    /\ \A k \in 1..Len(promises) : promises[k] # Pending
    /\ results' = FilterNonNull(promises)
    /\ imagePc' = "returned"
    /\ UNCHANGED <<count, promises>>

GenerateImageNext ==
    \/ GenerateImageIssue
    \/ \E k \in 1..MaxImageCount, url \in Urls \cup {NoImage} : GenerateSingleSettles(k, url)
    \/ GenerateImageReturn

(* ---------------- the selection handler in isolation ---------------- *)
NoSelect == -2

\* Any image list of 1..5 images with a valid selection.
SelectStart ==
    /\ \E k \in 1..MaxImageCount :
         /\ generatedImageUrls \in [1..k -> Urls]
         /\ selectedImageIndex \in 0..(k - 1)
    /\ config = [topic |-> "t", generateImage |-> TRUE, numberOfImages |-> MaxImageCount]
    /\ savedArticles = StoredArticles
    /\ isGenerating = FALSE
    /\ generatedContent = <<>>
    /\ isGeneratingImage = FALSE
    /\ isEditingImage = FALSE
    /\ imageGenerationError = Null
    /\ isEditingContent = FALSE
    /\ showImageMaskEditor = FALSE
    /\ genPc = "idle"
    /\ contentBuffer = <<>>
    /\ lastUpdateTime = 0
    /\ nChunks = 0
    /\ pending = EmptyBag
    /\ delivered = <<>>
    /\ lastFlushed = <<>>
    /\ lastWriter = "init"
    /\ superseded = FALSE
    /\ coverAt = NoCover

\* The handler of a gallery button, onClick={() => setSelectedImageIndex(idx)},
\* run with an index that is or is not a position of the list.
ClickSelect(idx) ==
    /\ idx \in (-1)..Len(generatedImageUrls)
    /\ selectedImageIndex' = SetSelectedImageIndex(idx)
    /\ selectArg' = idx
    /\ UNCHANGED <<config, savedArticles, generatedContent, generatedImageUrls, flagVars,
                   streamVars, pending, ghostVars>>

(* ---------------- insertText (formatting toolbar) ---------------- *)
\* String.prototype.substring: both indices are clamped to [0, length] and
\* swapped when the first exceeds the second.
Substring(text, a, b) ==
    LET ca == Max(0, Min(a, Len(text)))
        cb == Max(0, Min(b, Len(text)))
    IN SubSeq(text, Min(ca, cb) + 1, Max(ca, cb))

\* text.substring(0, start) + before + text.substring(start, end) + after
\*   + text.substring(end)
InsertAt_AfterFirst(text, start, end, before, after) ==
    Substring(text, 0, start) \o after \o Substring(text, start, end) \o before
        \o Substring(text, end, Len(text))
InsertAt(text, start, end, before, after) ==
    Substring(text, 0, start) \o before \o Substring(text, start, end) \o after
        \o Substring(text, end, Len(text))

Chars == {"a", "*"}
HelloWorld == <<"H", "e", "l", "l", "o", " ", "w", "o", "r", "l", "d">>
Texts == SeqsUpTo(Chars, MaxTextLen) \cup {HelloWorld}
\* The toolbar buttons: bold, italic, heading, list.
Inserts ==
    { [before |-> <<"*", "*">>, after |-> <<"*", "*">>],
      [before |-> <<"_">>, after |-> <<"_">>],
      [before |-> <<"\n", "#", "#", " ">>, after |-> <<>>],
      [before |-> <<"\n", "-", " ">>, after |-> <<>>] }

NoInsert == [text |-> <<>>, start |-> -1, end |-> -1, before |-> <<>>, after |-> <<>>]
EditorIdle == selectionStart = 0 /\ selectionEnd = 0 /\ insertArg = NoInsert

\* A restored draft with some text.
TextDrafts == {[topic |-> "t", content |-> text, imageUrls |-> <<>>] : text \in Texts}

\* The user places the cursor or selects a range in the textarea.
SetSelection(s, e) ==
    /\ ~ModalOpen
    /\ isEditingContent
    /\ insertArg = NoInsert
    /\ 0 <= s /\ s <= e /\ e <= Len(generatedContent)
    /\ selectionStart' = s
    /\ selectionEnd' = e
    /\ UNCHANGED insertArg

\* insertText(before, after), with the setSelectionRange of its timeout.
\* Applied once in a behaviour (insertArg records the application).
InsertText(before, after) ==
    /\ ~ModalOpen
    /\ isEditingContent
    /\ insertArg = NoInsert
    /\ generatedContent' =
          InsertAt(generatedContent, selectionStart, selectionEnd, before, after)
    /\ selectionStart' = selectionStart + Len(before)
    /\ selectionEnd' = selectionEnd + Len(before)
    /\ lastWriter' = "edit"
    /\ insertArg' = [text |-> generatedContent, start |-> selectionStart,
                     end |-> selectionEnd, before |-> before, after |-> after]
    /\ UNCHANGED <<config, savedArticles, generatedImageUrls, selectedImageIndex,
                   flagVars, streamVars, pending, delivered, lastFlushed, superseded>>

(* ---------------- insert image (editor) ---------------- *)
\* generateImage called by handleConfirmInsertImage; the continuation holds
\* the generatedContent and insertImageCursorPos of the render that called it.
InsertRequest(text, position) ==
    [kind |-> "insert", count |-> 1, own |-> FALSE, stale |-> FALSE,
     urls |-> <<>>, idx |-> position, text |-> text]

\* `\n\n![${insertImagePrompt}](${url})\n\n`
ImageMarkdown(url) ==
    <<"\n", "\n", "!", "[", "p", "]", "(", ToString(url), ")", "\n", "\n">>

InsertIdle == showInsertImageModal = FALSE /\ insertImageCursorPos = 0

\* "Insert AI Image" of the editing toolbar, the cursor being at position.
HandleInsertImage(position) ==
    /\ ~ModalOpen
    /\ isEditingContent
    /\ ~isGeneratingImage
    /\ position \in 0..Len(generatedContent)
    /\ insertImageCursorPos' = position
    /\ showInsertImageModal' = TRUE
    /\ UNCHANGED <<appVars, editorVars>>

\* The close button of the dialog, rendered while no image is generated.
CloseInsertImageModal ==
    /\ showInsertImageModal
    /\ ~isGeneratingImage
    /\ showInsertImageModal' = FALSE
    /\ UNCHANGED <<appVars, editorVars, insertImageCursorPos>>

\* "Generate Image" of the dialog, with a prompt typed in.
HandleConfirmInsertImage ==
    /\ showInsertImageModal
    /\ ~isGeneratingImage
    /\ BagCardinality(pending) < MaxPending
    /\ isGeneratingImage' = TRUE
    /\ pending' = AddRequest(InsertRequest(generatedContent, insertImageCursorPos))
    /\ UNCHANGED <<config, savedArticles, docVars, isGenerating, isEditingImage,
                   imageGenerationError, isEditingContent, showImageMaskEditor,
                   streamVars, ghostVars, editorVars, insertVars>>

\* before + imageMarkdown + after
InsertImageAt(text, position, url) ==
    Substring(text, 0, position) \o ImageMarkdown(url)
        \o Substring(text, position, Len(text))

\* generateImage returned an image: the splice, then the cursor timeout.
InsertResolve(r, url) ==
    /\ r \in PendingSet
    /\ r.kind = "insert"
    /\ pending' = RemoveRequest(pending, r)
    /\ generatedContent' = InsertImageAt(r.text, r.idx, url)
    /\ lastWriter' = "insert"
    /\ showInsertImageModal' = FALSE
    /\ isGeneratingImage' = FALSE
    /\ IF isEditingContent
       THEN /\ selectionStart' = r.idx + Len(ImageMarkdown(url))
            /\ selectionEnd' = r.idx + Len(ImageMarkdown(url))
       ELSE UNCHANGED <<selectionStart, selectionEnd>>
    /\ UNCHANGED <<config, savedArticles, generatedImageUrls, selectedImageIndex,
                   isGenerating, isEditingImage, imageGenerationError, isEditingContent,
                   showImageMaskEditor, streamVars, delivered, lastFlushed, superseded,
                   insertArg, insertImageCursorPos>>

\* generateImage returned no image or threw: alert, the dialog stays open.
InsertFail(r, outcome) ==
    /\ r \in PendingSet
    /\ r.kind = "insert"
    /\ outcome \in {"empty", "error"}
    /\ pending' = RemoveRequest(pending, r)
    /\ isGeneratingImage' = FALSE
    /\ UNCHANGED <<config, savedArticles, docVars, isGenerating, isEditingImage,
                   imageGenerationError, isEditingContent, showImageMaskEditor,
                   streamVars, ghostVars, editorVars, insertVars>>

(* ---------------- auto-save effect ---------------- *)
\* The value stored under 'autosave_draft': <<>> when the key is absent,
\* else the one draft { config, content, imageUrl, imageUrls }.
DraftOf(cfg, content, urls, idx) ==
    [config |-> cfg, content |-> content, imageUrl |-> CurrentImageUrlOf(urls, idx),
     imageUrls |-> urls]

\* if (config.topic) localStorage.setItem('autosave_draft', ...)
ShouldAutoSave_Always(cfg) == TRUE
ShouldAutoSave(cfg) == cfg.topic # ""

\* The dependency list of the effect.
AutoSaveDeps == <<config, generatedContent, generatedImageUrls, currentImageUrl>>

\* The storage once the page has loaded: the effect has run on mount.
StorageLoaded ==
    autosaveDraft =
        IF ShouldAutoSave(config)
        THEN <<DraftOf(config, generatedContent, generatedImageUrls, selectedImageIndex)>>
        ELSE <<>>

\* The effect, run after a render in which a dependency has changed.
AutoSaveEffect ==
    autosaveDraft' =
        IF AutoSaveDeps' # AutoSaveDeps /\ ShouldAutoSave(config')
        THEN <<DraftOf(config', generatedContent', generatedImageUrls',
                       selectedImageIndex')>>
        ELSE autosaveDraft

(* ---------------- MarkdownView ---------------- *)
\* Lines are sequences of characters; a block keeps what it shows: the cells
\* of a table, the text of a heading, the alt and url of an image, the runs
\* (plain or bold) of a paragraph and of each item of a list.
WhiteSpace == {" ", "\t", "\r"}

\* String.prototype.trim
RECURSIVE TrimStart(_)
TrimStart(line) ==
    IF line # <<>> /\ Head(line) \in WhiteSpace THEN TrimStart(Tail(line)) ELSE line
RECURSIVE TrimEnd(_)
TrimEnd(line) ==
    IF line # <<>> /\ line[Len(line)] \in WhiteSpace
    THEN TrimEnd(SubSeq(line, 1, Len(line) - 1)) ELSE line
Trim(line) == TrimEnd(TrimStart(line))

\* String.prototype.startsWith
StartsWith(line, prefix) ==
    Len(line) >= Len(prefix) /\ SubSeq(line, 1, Len(prefix)) = prefix

\* String.prototype.split with a one-character separator
RECURSIVE Split(_, _, _, _)
Split(row, sep, piece, acc) ==
    IF row = <<>> THEN Append(acc, piece)
    ELSE IF Head(row) = sep THEN Split(Tail(row), sep, <<>>, Append(acc, piece))
    ELSE Split(Tail(row), sep, Append(piece, Head(row)), acc)

RECURSIVE FilterNonEmpty(_)
FilterNonEmpty(cells) ==
    IF cells = <<>> THEN <<>>
    ELSE IF Head(cells) # <<>> THEN <<Head(cells)>> \o FilterNonEmpty(Tail(cells))
    ELSE FilterNonEmpty(Tail(cells))

\* row.split('|').map(c => c.trim()).filter(c => c !== '')
ParseRow(row) ==
    LET pieces == Split(row, "|", <<>>, <<>>)
    IN FilterNonEmpty([k \in 1..Len(pieces) |-> Trim(pieces[k])])

\* rows.slice(2)
BodyRows_FromSeparator(rows) == SubSeq(rows, 2, Len(rows))
BodyRows(rows) == SubSeq(rows, 3, Len(rows))

Block(type, headers, rows, text) ==
    [type |-> type, headers |-> headers, rows |-> rows, text |-> text,
     alt |-> <<>>, url |-> <<>>, runs |-> <<>>, items |-> <<>>]
ImageBlock(alt, url) == [Block("img", <<>>, <<>>, <<>>) EXCEPT !.alt = alt, !.url = url]
ParagraphBlock(runs) == [Block("p", <<>>, <<>>, <<>>) EXCEPT !.runs = runs]
ListBlock(items) == [Block("ul", <<>>, <<>>, <<>>) EXCEPT !.items = items]

\* String.prototype.endsWith
EndsWith(line, suffix) ==
    Len(line) >= Len(suffix)
        /\ SubSeq(line, Len(line) - Len(suffix) + 1, Len(line)) = suffix

\* the characters '.' does not match
LineTerminators == {"\n", "\r"}
NoTerminator(text, from, to) == \A k \in from..to : text[k] \notin LineTerminators

LeastOf(S) == CHOOSE x \in S : \A y \in S : x <= y
GreatestOf(S) == CHOOSE x \in S : \A y \in S : x >= y

\* /(\*\*.*?\*\*)/ matches text[i..j+1]
BoldAt(text, i, j) ==
    /\ i >= 1 /\ i + 2 <= j /\ j + 1 <= Len(text)
    /\ text[i] = "*" /\ text[i + 1] = "*"
    /\ text[j] = "*" /\ text[j + 1] = "*"
    /\ NoTerminator(text, i + 2, j - 1)

\* text.split(/(\*\*.*?\*\*)/g) from position p on: the pieces between the
\* matches and the matches themselves, empty pieces included
RECURSIVE SplitBold(_, _)
SplitBold(text, p) ==
    LET starts == {i \in p..Len(text) :
                      text[i] = "*" /\ \E j \in 1..Len(text) : BoldAt(text, i, j)}
    IN IF starts = {} THEN <<SubSeq(text, p, Len(text))>>
       ELSE LET i == LeastOf(starts)
                j == LeastOf({k \in 1..Len(text) : BoldAt(text, i, k)})
            IN <<SubSeq(text, p, i - 1), SubSeq(text, i, j + 1)>>
                   \o SplitBold(text, j + 2)

Run(bold, text) == [bold |-> bold, text |-> text]

\* parts.map: a part that starts and ends with '**' becomes <strong> of
\* part.slice(2, -2), any other part stays text
RenderedParts(text) ==
    LET parts == SplitBold(text, 1)
    IN [k \in 1..Len(parts) |->
           IF StartsWith(parts[k], <<"*", "*">>) /\ EndsWith(parts[k], <<"*", "*">>)
           THEN Run(TRUE, SubSeq(parts[k], 3, Len(parts[k]) - 2))
           ELSE Run(FALSE, parts[k])]

\* renderTable: <<>> stands for null, else the one table node
RenderTable(rows) ==
    IF Len(rows) < 2 THEN <<>>
    ELSE LET body == BodyRows(rows)
             cells == [k \in 1..Len(body) |-> ParseRow(body[k])]
         IN <<Block("table", ParseRow(rows[1]), FilterNonEmpty(cells), <<>>)>>

\* The locals of the component while it walks the lines.
ParserStart == [elements |-> <<>>, listBuffer |-> <<>>, tableBuffer |-> <<>>,
                inList |-> FALSE, inTable |-> FALSE]

FlushList_KeepsBuffer(st) ==
    IF Len(st.listBuffer) > 0
    THEN [st EXCEPT !.elements = Append(@, ListBlock(st.listBuffer))]
    ELSE st
FlushList(st) ==
    IF Len(st.listBuffer) > 0
    THEN [st EXCEPT !.elements = Append(@, ListBlock(st.listBuffer)),
                    !.listBuffer = <<>>, !.inList = FALSE]
    ELSE st

FlushTable(st) ==
    IF Len(st.tableBuffer) > 0
    THEN [st EXCEPT !.elements = @ \o RenderTable(st.tableBuffer),
                    !.tableBuffer = <<>>, !.inTable = FALSE]
    ELSE st

\* /!\[(.*?)\]\((.*?)\)/ matches with '![' at a, '](' at b and ')' at c
ImageAt(line, a, b, c) ==
    /\ a + 1 < b /\ b + 1 < c
    /\ line[a] = "!" /\ line[a + 1] = "["
    /\ line[b] = "]" /\ line[b + 1] = "("
    /\ line[c] = ")"
    /\ NoTerminator(line, a + 2, b - 1) /\ NoTerminator(line, b + 2, c - 1)

\* trimLine.match(...) is not null
MatchesImage(line) ==
    \E a \in 1..Len(line) : line[a] = "!" /\
        \E b \in 1..Len(line) : line[b] = "]" /\
            \E c \in 1..Len(line) : ImageAt(line, a, b, c)

\* match[1] and match[2]: the leftmost match, both groups as short as can be
ImageMatch_Greedy(line) ==
    LET pos == 1..Len(line)
        a == LeastOf({x \in pos : line[x] = "!" /\
                 \E y \in pos : line[y] = "]" /\ \E z \in pos : ImageAt(line, x, y, z)})
        b == GreatestOf({y \in pos : line[y] = "]" /\
                 \E z \in pos : ImageAt(line, a, y, z)})
        c == GreatestOf({z \in pos : ImageAt(line, a, b, z)})
    IN [alt |-> SubSeq(line, a + 2, b - 1), url |-> SubSeq(line, b + 2, c - 1)]
ImageMatch(line) ==
    LET pos == 1..Len(line)
        a == LeastOf({x \in pos : line[x] = "!" /\
                 \E y \in pos : line[y] = "]" /\ \E z \in pos : ImageAt(line, x, y, z)})
        b == LeastOf({y \in pos : line[y] = "]" /\
                 \E z \in pos : ImageAt(line, a, y, z)})
        c == LeastOf({z \in pos : ImageAt(line, a, b, z)})
    IN [alt |-> SubSeq(line, a + 2, b - 1), url |-> SubSeq(line, b + 2, c - 1)]

PushBlock(st, block) == [st EXCEPT !.elements = Append(@, block)]
Push(st, type, text) == PushBlock(st, Block(type, <<>>, <<>>, text))

\* The list item, paragraph and blank-line branches, after the heading tests.
ListOrParagraph_BlankKeepsList(st, line, trimLine) ==
    IF StartsWith(trimLine, <<"-", " ">>) \/ StartsWith(trimLine, <<"*", " ">>)
    THEN [st EXCEPT !.inList = TRUE,
                    !.listBuffer =
                        Append(@, RenderedParts(SubSeq(trimLine, 3, Len(trimLine))))]
    ELSE IF trimLine # <<>>
         THEN PushBlock(FlushList(st), ParagraphBlock(RenderedParts(line)))
         ELSE st
ListOrParagraph(st, line, trimLine) ==
    IF StartsWith(trimLine, <<"-", " ">>) \/ StartsWith(trimLine, <<"*", " ">>)
    THEN [st EXCEPT !.inList = TRUE,
                    !.listBuffer =
                        Append(@, RenderedParts(SubSeq(trimLine, 3, Len(trimLine))))]
    ELSE LET s1 == IF st.inList THEN FlushList(st) ELSE st
         IN IF trimLine # <<>>
            THEN PushBlock(FlushList(s1), ParagraphBlock(RenderedParts(line)))
            ELSE s1

\* The body of lines.forEach for one line.
ParseLine(st, line) ==
    LET trimLine == Trim(line)
    IN IF StartsWith(trimLine, <<"|">>)
       THEN [FlushList(st) EXCEPT !.inTable = TRUE,
                                  !.tableBuffer = Append(@, trimLine)]
       ELSE LET s1 == IF st.inTable THEN FlushTable(st) ELSE st
                s2 == IF StartsWith(trimLine, <<"!", "[">>) THEN FlushList(s1) ELSE s1
            IN IF StartsWith(trimLine, <<"!", "[">>) /\ MatchesImage(trimLine)
               THEN PushBlock(s2, ImageBlock(ImageMatch(trimLine).alt,
                                             ImageMatch(trimLine).url))
               ELSE IF StartsWith(line, <<"#", " ">>)
               THEN Push(FlushList(s2), "h1", SubSeq(line, 3, Len(line)))
               ELSE IF StartsWith(line, <<"#", "#", " ">>)
               THEN Push(FlushList(s2), "h2", SubSeq(line, 4, Len(line)))
               ELSE IF StartsWith(line, <<"#", "#", "#", " ">>)
               THEN Push(FlushList(s2), "h3", SubSeq(line, 5, Len(line)))
               ELSE ListOrParagraph(s2, line, trimLine)

RECURSIVE ParseLines(_, _)
ParseLines(st, lines) ==
    IF lines = <<>> THEN st ELSE ParseLines(ParseLine(st, Head(lines)), Tail(lines))

\* MarkdownView: the elements of the rendered <div>, none for empty content.
MarkdownView(lines) ==
    IF lines = << <<>> >> THEN <<>>
    ELSE FlushTable(FlushList(ParseLines(ParserStart, lines))).elements

\* The lines rendered: every line of at most SampleLineLen characters over
\* bar, blank and a letter, the rows of the example table, a row with an
\* empty cell, list items with and without bold, a heading, and lines that
\* start with '![' and do or do not match the image pattern.
SampleLineLen == 2
ExampleTable == << <<"|", " ", "A", " ", "|", " ", "B", " ", "|">>,
                   <<"|", "-", "-", "-", "|", "-", "-", "-", "|">>,
                   <<"|", " ", "1", " ", "|", " ", "2", " ", "|">> >>
ExampleList == << <<"-", " ", "i", "t", "e", "m", " ", "o", "n", "e">>,
                  <<"-", " ", "*", "*", "i", "t", "e", "m", " ", "t", "w", "o", "*", "*">> >>
ExampleImage == <<"!", "[", "a", " ", "c", "a", "t", "]", "(", "h", "t", "t", "p", ":", "/", "/", "x", "/", "y", ".", "p", "n", "g", ")">>
BrokenImage == <<"!", "[", "x", "]", "(", "y">>
TwoImages == <<" ", "!", "[", "a", "]", "(", "u", ")", " ", "!", "[", "b", "]", "(", "v", ")">>
SampleLines ==
    SeqsUpTo({"|", " ", "x"}, SampleLineLen)
        \cup {ExampleTable[1], ExampleTable[2], ExampleTable[3],
              <<"|", "1", "|", " ", "|", "2", "|">>,
              <<"-", " ", "x">>, <<"#", " ", "x">>}
        \cup {ExampleList[1], ExampleList[2], ExampleImage, BrokenImage, TwoImages}

\* One line of each kind: blank, text, list items, heading, table row, image,
\* unclosed image.
LineKinds ==
    {<<>>, <<"x">>, <<"-", " ", "x">>, ExampleList[2], <<"#", " ", "x">>,
     <<"|", "x", "|">>, ExampleImage, BrokenImage}

NothingParsed == mdBlocks = <<>> /\ mdParser = ParserStart /\ mdIndex = 0
NothingExported == htmlBlocks = <<>> /\ htmlPc = "idle"

MarkdownIdle == mdLines = <<>> /\ mdPc = "idle" /\ NothingParsed /\ NothingExported

\* The Document text is one of the contents, split at its newlines.
ContentGiven(contents) ==
    /\ mdLines \in contents
    /\ mdPc = "input"
    /\ NothingParsed /\ NothingExported

\* The component is given a content of 1..MaxLines lines.
MarkdownStart == ContentGiven(SeqsUpTo(SampleLines, MaxLines) \ {<<>>})

RenderMarkdown ==
    /\ mdPc = "input"
    /\ mdBlocks' = MarkdownView(mdLines)
    /\ mdPc' = "rendered"
    /\ UNCHANGED <<mdLines, mdParser, mdIndex, htmlBlocks, htmlPc>>

\* The component's pass over the lines, one line at a time.
ReturnNull ==
    /\ mdPc = "input" /\ mdLines = << <<>> >>
    /\ mdPc' = "rendered"
    /\ UNCHANGED <<mdLines, mdBlocks, mdParser, mdIndex, htmlBlocks, htmlPc>>

ForEachLine ==
    /\ mdPc = "input" /\ mdLines # << <<>> >>
    /\ mdIndex < Len(mdLines)
    /\ mdParser' = ParseLine(mdParser, mdLines[mdIndex + 1])
    /\ mdIndex' = mdIndex + 1
    /\ UNCHANGED <<mdLines, mdBlocks, mdPc, htmlBlocks, htmlPc>>

EndOfInput ==
    /\ mdPc = "input" /\ mdLines # << <<>> >>
    /\ mdIndex = Len(mdLines)
    /\ mdParser' = FlushTable(FlushList(mdParser))
    /\ mdBlocks' = mdParser'.elements
    /\ mdPc' = "rendered"
    /\ UNCHANGED <<mdLines, mdIndex, htmlBlocks, htmlPc>>

(* ---------------- generateHtmlContent ---------------- *)
\* The html string is kept as the blocks its tags spell; a <ul> that is open
\* is the list buffer, closed by </ul>.
HtmlFlushList(st) ==
    IF st.inList
    THEN [st EXCEPT !.elements = Append(@, ListBlock(st.listBuffer)),
                    !.listBuffer = <<>>, !.inList = FALSE]
    ELSE st

\* <table>, with <thead> and <tbody> only from two buffered rows on
HtmlTable(rows) ==
    IF Len(rows) >= 2
    THEN LET cells == [k \in 1..(Len(rows) - 2) |-> ParseRow(rows[k + 2])]
         IN Block("table", ParseRow(rows[1]), FilterNonEmpty(cells), <<>>)
    ELSE Block("table", <<>>, <<>>, <<>>)

HtmlFlushTable(st) ==
    IF st.inTable /\ Len(st.tableBuffer) > 0
    THEN [st EXCEPT !.elements = Append(@, HtmlTable(st.tableBuffer)),
                    !.tableBuffer = <<>>, !.inTable = FALSE]
    ELSE st

\* text.replace(/\*\*(.*?)\*\*/g, '<strong>$1</strong>'): every second piece
\* of the split is a match; an empty piece adds no character
ReplaceBold(text) ==
    LET parts == SplitBold(text, 1)
    IN [k \in 1..Len(parts) |->
           IF k % 2 = 0
           THEN Run(TRUE, SubSeq(parts[k], 3, Len(parts[k]) - 2))
           ELSE Run(FALSE, parts[k])]

\* The heading, list item and paragraph chain of the export.
HtmlTextLine(st, line, trimLine) ==
    IF StartsWith(line, <<"#", " ">>)
    THEN Push(HtmlFlushList(st), "h1", SubSeq(line, 3, Len(line)))
    ELSE IF StartsWith(line, <<"#", "#", " ">>)
    THEN Push(HtmlFlushList(st), "h2", SubSeq(line, 4, Len(line)))
    ELSE IF StartsWith(line, <<"#", "#", "#", " ">>)
    THEN Push(HtmlFlushList(st), "h3", SubSeq(line, 5, Len(line)))
    ELSE IF StartsWith(trimLine, <<"-", " ">>) \/ StartsWith(trimLine, <<"*", " ">>)
    THEN [st EXCEPT !.inList = TRUE,
                    !.listBuffer =
                        Append(@, ReplaceBold(SubSeq(trimLine, 3, Len(trimLine))))]
    ELSE IF Len(trimLine) > 0
    THEN PushBlock(HtmlFlushList(st), ParagraphBlock(ReplaceBold(line)))
    ELSE st

\* The body of lines.forEach of the export for one line.
HtmlLine(st, line) ==
    LET trimLine == Trim(line)
    IN IF StartsWith(trimLine, <<"|">>)
       THEN [HtmlFlushList(st) EXCEPT !.inTable = TRUE,
                                      !.tableBuffer = Append(@, trimLine)]
       ELSE LET s1 == IF st.inTable THEN HtmlFlushTable(st) ELSE st
            IN IF StartsWith(trimLine, <<"!", "[">>)
               THEN IF MatchesImage(trimLine)
                    THEN PushBlock(HtmlFlushList(s1),
                                   ImageBlock(ImageMatch(trimLine).alt,
                                              ImageMatch(trimLine).url))
                    ELSE HtmlFlushList(s1)
               ELSE HtmlTextLine(s1, line, trimLine)

RECURSIVE HtmlLines(_, _)
HtmlLines(st, lines) ==
    IF lines = <<>> THEN st ELSE HtmlLines(HtmlLine(st, Head(lines)), Tail(lines))

\* generateHtmlContent: the blocks of the <body> after the cover image
GenerateHtmlContent(lines) ==
    HtmlFlushTable(HtmlFlushList(HtmlLines(ParserStart, lines))).elements

\* handleExportHtml, which returns at once on an empty Document text
HandleExportHtml ==
    /\ htmlPc = "idle"
    /\ mdLines # << <<>> >>
    /\ htmlBlocks' = GenerateHtmlContent(mdLines)
    /\ htmlPc' = "exported"
    /\ UNCHANGED <<mdLines, mdBlocks, mdPc, mdParser, mdIndex>>

(* ---------------- specifications ---------------- *)
NoAlert == "none"
OtherIdle ==
    /\ EditorIdle /\ InsertIdle /\ editTrace = "none" /\ StorageLoaded /\ MarkdownIdle
    /\ alertText = NoAlert

vars == <<appVars, selectArg, serviceVars, coverAt, otherVars>>

ServiceIdle ==
    /\ retryPc = "idle"
    /\ retries = DefaultRetries
    /\ delay = DefaultDelay
    /\ attempts = 0
    /\ waits = <<>>
    /\ error = NoError
    /\ result = NoValue
    /\ ImageIdle
    /\ IterIdle

Init == AppInit /\ selectArg = NoSelect /\ ServiceIdle /\ OtherIdle

\* A generation session and the other writers of the text.
Next ==
    /\ \/ \E t \in Topics : SetTopic(t)
       \/ \E b \in BOOLEAN : SetGenerateImage(b)
       \/ SessionNext
       \/ WriterNext
    /\ UNCHANGED <<selectArg, serviceVars, coverAt, otherVars>>
Spec == Init /\ [][Next]_vars

\* The image set manager: the sessions deliver no fragment and the text is
\* written only by handleGenerate and by opening a saved article.
NextImages ==
    /\ \/ ConfigNext
       \/ HandleGenerate
       \/ StreamEnd
       \/ StreamFail
       \/ \E r \in PendingSet, urls \in SeqsUpTo(Urls, MaxNumImages) : CoverResolve(r, urls)
       \/ \E r \in PendingSet : CoverReject(r)
       \/ ImageNext
       \/ \E i \in 1..Len(savedArticles) : OpenArticle(savedArticles[i])
    /\ UNCHANGED <<selectArg, serviceVars, coverAt, otherVars>>
SpecImages == Init /\ [][NextImages]_vars

\* The selection handler applied to every index from -1 to the list length.
InitSelect == SelectStart /\ selectArg = NoSelect /\ ServiceIdle /\ OtherIdle
NextSelect ==
    /\ \E idx \in (-1)..MaxImageCount : ClickSelect(idx)
    /\ UNCHANGED <<serviceVars, coverAt, otherVars>>
SpecSelect == InitSelect /\ [][NextSelect]_vars

\* One call of retryWithBackoff with its default arguments.
InitRetry ==
    AppStart(NoDraft) /\ selectArg = NoSelect /\ RetryStart /\ ImageIdle /\ IterIdle /\ OtherIdle
NextRetry == RetryNext /\ UNCHANGED <<appVars, selectArg, imageVars, iterVars, coverAt, otherVars>>
SpecRetry == InitRetry /\ [][NextRetry]_vars

\* One call of generateImage for every count.
InitGenerateImage ==
    /\ AppStart(NoDraft) /\ selectArg = NoSelect
    /\ retryPc = "idle" /\ retries = DefaultRetries /\ delay = DefaultDelay
    /\ attempts = 0 /\ waits = <<>> /\ error = NoError /\ result = NoValue
    /\ GenerateImageStart
    /\ IterIdle
    /\ OtherIdle
NextGenerateImage == GenerateImageNext /\ UNCHANGED <<appVars, selectArg, retryVars, iterVars, coverAt, otherVars>>
SpecGenerateImage == InitGenerateImage /\ [][NextGenerateImage]_vars

\* One call of streamArticleGeneration: the request under retryWithBackoff,
\* then the iteration of its response.
InitStream ==
    AppStart(NoDraft) /\ selectArg = NoSelect /\ StreamArticleStart /\ ImageIdle /\ OtherIdle
NextStream ==
    /\ \/ RetryNext /\ UNCHANGED iterVars
       \/ AwaitResponse
       \/ RequestRejects
       \/ \E hasText \in BOOLEAN : NextChunk(hasText)
       \/ IterationEnds
       \/ \E shape \in IterationErrors : IterationFails(shape)
    /\ UNCHANGED <<appVars, selectArg, imageVars, coverAt, otherVars>>
SpecStream == InitStream /\ [][NextStream]_vars

\* One handleGenerate after another with their cover requests; coverAt records when the result of the cover request of the
\* running session arrived (phase, chunks so far) and what it was.
CoverArrived(r, urls) ==
    IF r.own /\ genPc \in {"stream", "image"}
    THEN [coverAt EXCEPT !.phase = genPc, !.chunks = nChunks, !.urls = urls]
    ELSE coverAt

NextCover ==
    /\ \/ (\E t \in Topics : SetTopic(t)) /\ UNCHANGED coverAt
       \/ (\E b \in BOOLEAN : SetGenerateImage(b)) /\ UNCHANGED coverAt
       \/ HandleGenerate /\ coverAt' = [NoCover EXCEPT !.clean = (pending = EmptyBag)]
       \/ (\E chunk \in Fragments, t \in DateNow(lastUpdateTime) : OnChunk(chunk, t))
             /\ UNCHANGED coverAt
       \/ OnEmptyChunk /\ UNCHANGED coverAt
       \/ StreamEnd /\ UNCHANGED coverAt
       \/ StreamFail /\ UNCHANGED coverAt
       \/ \E r \in PendingSet, urls \in SeqsUpTo(Urls, MaxNumImages) :
             CoverResolve(r, urls) /\ coverAt' = CoverArrived(r, urls)
       \/ \E r \in PendingSet : CoverReject(r) /\ coverAt' = CoverArrived(r, <<>>)
    /\ UNCHANGED <<selectArg, serviceVars, otherVars>>
SpecCover == Init /\ [][NextCover]_vars

\* insertText applied once to every text, selection and toolbar button.
InitInsertText ==
    /\ \E draft \in TextDrafts : AppStart(draft)
    /\ selectArg = NoSelect /\ ServiceIdle /\ OtherIdle
NextInsertText ==
    /\ \/ ToggleEdit /\ selectionStart' = 0 /\ selectionEnd' = 0 /\ UNCHANGED insertArg
       \/ \E s, e \in 0..Len(generatedContent) : SetSelection(s, e) /\ UNCHANGED appVars
       \/ \E ins \in Inserts : InsertText(ins.before, ins.after)
    /\ UNCHANGED <<selectArg, serviceVars, coverAt, insertVars, editTrace, autosaveDraft,
                   markdownVars, alertText>>
SpecInsertText == InitInsertText /\ [][NextInsertText]_vars

\* The editor's image insertion next to a text stream; an insertion is
\* requested on texts of at most MaxTextLen characters.
NextInsertImage ==
    /\ \/ ( \/ \E t \in Topics : SetTopic(t)
            \/ HandleGenerate
            \/ \E chunk \in Fragments, t \in DateNow(lastUpdateTime) : OnChunk(chunk, t)
            \/ StreamEnd
            \/ StreamFail
            \/ ToggleEdit ) /\ UNCHANGED otherVars
       \/ \E position \in 0..MaxInsertPos :
             Len(generatedContent) <= MaxTextLen /\ HandleInsertImage(position)
       \/ CloseInsertImageModal
       \/ HandleConfirmInsertImage
       \/ \E r \in PendingSet, url \in Urls : InsertResolve(r, url)
       \/ \E r \in PendingSet, outcome \in {"empty", "error"} : InsertFail(r, outcome)
    /\ UNCHANGED <<selectArg, serviceVars, coverAt, editTrace, autosaveDraft, markdownVars, alertText>>
SpecInsertImage == Init /\ [][NextInsertImage]_vars

\* A text stream with the user editing the text meanwhile; editTrace records
\* that the text was edited during the stream ("edited") and that a flush of
\* the stream has written the text since ("overwritten").
FlushStep ==
    genPc = "stream" /\ (lastUpdateTime' # lastUpdateTime \/ genPc' \in {"image", "done"})

NextEdit ==
    /\ \/ (\E t \in Topics : SetTopic(t)) /\ UNCHANGED editTrace
       \/ HandleGenerate /\ editTrace' = "none"
       \/ (\E chunk \in Fragments, t \in DateNow(lastUpdateTime) : OnChunk(chunk, t))
             /\ editTrace' = IF FlushStep /\ editTrace = "edited"
                             THEN "overwritten" ELSE editTrace
       \/ OnEmptyChunk /\ UNCHANGED editTrace
       \/ StreamEnd /\ editTrace' = IF editTrace = "edited" THEN "overwritten" ELSE editTrace
       \/ StreamFail /\ UNCHANGED editTrace
       \/ ToggleEdit /\ UNCHANGED editTrace
       \/ (\E text \in EditTexts : UserEdit(text))
             /\ editTrace' = IF genPc = "stream" THEN "edited" ELSE editTrace
    /\ UNCHANGED <<selectArg, serviceVars, coverAt, editorVars, insertVars, autosaveDraft,
                   markdownVars, alertText>>
SpecEdit == Init /\ [][NextEdit]_vars

\* Handlers that change the topic, the text or the images (sessions without
\* cover requests), each followed by the auto-save effect; the topic field
\* can be emptied.
NextAutosave ==
    /\ \/ \E t \in Topics \cup {""} : SetTopic(t)
       \/ HandleGenerate
       \/ \E chunk \in Fragments, t \in DateNow(lastUpdateTime) : OnChunk(chunk, t)
       \/ StreamEnd
       \/ StreamFail
       \/ WriterNext
       \/ \E idx \in 0..(MaxImageCount - 1) : SelectThumbnail(idx)
    /\ AutoSaveEffect
    /\ UNCHANGED <<selectArg, serviceVars, coverAt, editorVars, insertVars, editTrace,
                   markdownVars, alertText>>
SpecAutosave == Init /\ [][NextAutosave]_vars

\* MarkdownView rendered once on every content of sample lines.
InitMarkdown ==
    /\ AppStart(NoDraft) /\ selectArg = NoSelect /\ ServiceIdle
    /\ EditorIdle /\ InsertIdle /\ editTrace = "none" /\ StorageLoaded
    /\ alertText = NoAlert
    /\ MarkdownStart
NextMarkdown ==
    /\ RenderMarkdown
    /\ UNCHANGED <<appVars, selectArg, serviceVars, coverAt, editorVars, insertVars,
                   editTrace, autosaveDraft, alertText>>
SpecMarkdown == InitMarkdown /\ [][NextMarkdown]_vars

\* A generation session whose collaborator calls terminate: the stream ends
\* or fails, and a cover request in flight settles, with no image or with
\* one; the fragments all carry the same text.
StreamTerminates == StreamEnd \/ StreamFail
CoverTerminates ==
    \/ \E r \in PendingSet, urls \in {<<>>, <<1>>} : CoverResolve(r, urls)
    \/ \E r \in PendingSet : CoverReject(r)
NextSession ==
    /\ \/ \E t \in Topics : SetTopic(t)
       \/ \E b \in BOOLEAN : SetGenerateImage(b)
       \/ HandleGenerate
       \/ \E t \in DateNow(lastUpdateTime) : OnChunk(<<"a">>, t)
       \/ OnEmptyChunk
       \/ StreamEnd
       \/ StreamFail
       \/ \E r \in PendingSet, urls \in {<<>>, <<1>>} : CoverResolve(r, urls)
       \/ \E r \in PendingSet : CoverReject(r)
    /\ UNCHANGED <<selectArg, serviceVars, coverAt, otherVars>>
SpecSession ==
    /\ Init /\ [][NextSession]_vars
    /\ WF_vars(NextSession /\ StreamTerminates)
    /\ WF_vars(NextSession /\ CoverTerminates)

\* Article generation with a cover image and the regeneration of the images,
\* whose requests may overlap.
NextRegenerate ==
    /\ \/ \E b \in BOOLEAN : SetGenerateImage(b)
       \/ HandleGenerate
       \/ StreamEnd
       \/ StreamFail
       \/ \E r \in PendingSet, urls \in SeqsUpTo(Urls, MaxNumImages) : CoverResolve(r, urls)
       \/ \E r \in PendingSet : CoverReject(r)
       \/ HandleGenerateImage
       \/ \E r \in PendingSet, urls \in SeqsUpTo(Urls, MaxNumImages) : RegenResolve(r, urls)
       \/ \E r \in PendingSet : RegenReject(r)
    /\ UNCHANGED <<selectArg, serviceVars, coverAt, otherVars>>
SpecRegenerate == Init /\ [][NextRegenerate]_vars

\* The image panel: selection, regeneration and edit, with the alert that
\* handleEditImage shows when the edit gives nothing.
EditAlert(outcome) ==
    IF outcome = "null" THEN "Failed to edit image." ELSE "Error editing image."
NextEditImage ==
    /\ \/ ConfigNext /\ UNCHANGED alertText
       \/ HandleGenerateImage /\ UNCHANGED alertText
       \/ (\E r \in PendingSet, urls \in SeqsUpTo(Urls, MaxNumImages) : RegenResolve(r, urls))
             /\ UNCHANGED alertText
       \/ (\E r \in PendingSet : RegenReject(r)) /\ UNCHANGED alertText
       \/ (\E idx \in 0..(MaxImageCount - 1) : SelectThumbnail(idx)) /\ UNCHANGED alertText
       \/ StartImageEdit /\ UNCHANGED alertText
       \/ CancelImageEdit /\ UNCHANGED alertText
       \/ HandleEditImage /\ UNCHANGED alertText
       \/ (\E r \in PendingSet, newUrl \in Urls : EditResolve(r, newUrl))
             /\ UNCHANGED alertText
       \/ \E r \in PendingSet, outcome \in {"null", "error"} :
             EditNoResult(r, outcome) /\ alertText' = EditAlert(outcome)
    /\ UNCHANGED <<selectArg, serviceVars, coverAt, editorVars, insertVars, editTrace,
                   autosaveDraft, markdownVars>>
SpecEditImage == Init /\ [][NextEditImage]_vars

\* The preview and the export of the same Document text, in either order.
InitExport ==
    /\ AppStart(NoDraft) /\ selectArg = NoSelect /\ ServiceIdle
    /\ EditorIdle /\ InsertIdle /\ editTrace = "none" /\ StorageLoaded
    /\ alertText = NoAlert
    /\ ContentGiven(SeqsUpTo(LineKinds, MaxLines) \ {<<>>})
NextExport ==
    /\ RenderMarkdown \/ HandleExportHtml
    /\ UNCHANGED <<appVars, selectArg, serviceVars, coverAt, editorVars, insertVars,
                   editTrace, autosaveDraft, alertText>>
SpecExport == InitExport /\ [][NextExport]_vars

\* The pass of MarkdownView over its lines, line by line.
NextParser ==
    /\ ReturnNull \/ ForEachLine \/ EndOfInput
    /\ UNCHANGED <<appVars, selectArg, serviceVars, coverAt, editorVars, insertVars,
                   editTrace, autosaveDraft, alertText>>
SpecParser == InitExport /\ [][NextParser]_vars

(* ======================= properties ======================= *)
StreamCompletes == genPc = "stream" /\ genPc' \in {"image", "done"}
StreamFails == genPc = "stream" /\ genPc' = "failed"
\* No writer other than the session has set the text since the session began.
OnlySessionWrote == lastWriter \in {"start", "flush", "final"}
\* A step of the stream of the running session: a chunk or its normal end.
StreamStep == genPc = "stream" /\ (nChunks' = nChunks + 1 \/ StreamCompletes)

\* C1: when the stream phase of handleGenerate completes normally, the
\* Document text is exactly the concatenation of the fragments delivered to
\* onChunk, whatever flushes the throttle allowed or suppressed.
C1_CompleteTextIsConcatenation ==
    [][StreamCompletes => generatedContent' = Concat(delivered)]_vars

\* C1 witness: a completed stream of several fragments whose last fragment
\* had been held back by the throttle.
C1_Witness ==
    /\ genPc = "done"
    /\ lastWriter = "final"
    /\ Len(delivered) >= 2
    /\ lastFlushed # generatedContent
    /\ generatedContent = Concat(delivered)

\* C2 (as claimed): when the fragment sequence ends, normally or by an
\* error, the Document text is forced to the accumulated buffer.  Stated for
\* the sessions in which nothing but the session wrote the text.
C2_EndForcesBuffer ==
    [][(StreamCompletes \/ StreamFails) /\ OnlySessionWrote
          => generatedContent' = contentBuffer]_vars

\* C3: a stream failure leaves the Document text as it was: the text written
\* by the last flush before the failure (the empty text written at the start
\* of the session when there was no flush), unless another writer has
\* replaced it since; and once the session has failed no flush of it changes
\* the text.
C3_FailurePreservesFlushed ==
    [][ /\ StreamFails =>
            /\ generatedContent' = generatedContent
            /\ (OnlySessionWrote => generatedContent' = lastFlushed)
        /\ (genPc = "failed" /\ generatedContent' # generatedContent)
              => lastWriter' \notin {"flush", "final"} ]_vars

\* C3 witness: a failed session that had flushed some text and holds a later
\* fragment that was never flushed.
C3_Witness ==
    /\ genPc = "failed"
    /\ lastWriter = "flush"
    /\ generatedContent # <<>>
    /\ generatedContent = lastFlushed
    /\ contentBuffer # generatedContent

\* C4 (as claimed): whenever the image list is non-empty the selected index
\* is a position of the list.
C4_SelectionInRange ==
    Len(generatedImageUrls) > 0 =>
        (0 <= selectedImageIndex /\ selectedImageIndex < Len(generatedImageUrls))

\* C5 (as claimed): a result of a superseded session is not applied: a flush
\* of a session superseded by opening a saved article leaves the text alone,
\* and the result of a superseded image request leaves the image list alone.
C5_StaleResultNotApplied ==
    [][ /\ (superseded /\ StreamStep) => generatedContent' = generatedContent
        /\ (\E r \in PendingSet : r.stale /\ pending' = RemoveRequest(pending, r))
              => generatedImageUrls' = generatedImageUrls ]_vars

\* C6 (as claimed): a successful image edit started on slot i changes only
\* position i of the image list as it is just before the result is applied,
\* and leaves the selected index alone.
C6_EditChangesOnlySlot ==
    [][ \A r \in PendingSet, newUrl \in Urls :
          EditResolve(r, newUrl) =>
            /\ Len(generatedImageUrls') = Len(generatedImageUrls)
            /\ \A j \in 1..Len(generatedImageUrls) :
                  j # r.idx + 1 => generatedImageUrls'[j] = generatedImageUrls[j]
            /\ selectedImageIndex' = selectedImageIndex ]_vars

\* C7 (as claimed): after a bulk generation that returned at least one image
\* the image list is the returned list and the selected index is 0.
C7_BulkResultReplacesAll ==
    [][ \A r \in PendingSet, urls \in SeqsUpTo(Urls, MaxNumImages) :
          ((CoverResolve(r, urls) \/ RegenResolve(r, urls)) /\ urls # <<>>) =>
            /\ generatedImageUrls' = urls
            /\ selectedImageIndex' = 0 ]_vars

C9_RequestsClamped ==
    (imagePc \in {"waiting", "returned"}) =>
        /\ Len(promises) = (IF count < 1 THEN 1 ELSE IF count > 5 THEN 5 ELSE count)
        /\ (count = 7 => Len(promises) = 5)
        /\ (count = 0 => Len(promises) = 1)
        /\ (imagePc = "returned" =>
               (Len(results) <= Len(promises)
                /\ \A k \in 1..Len(results) : results[k] \in Urls))

\* C9 witness: count 7 returned, 5 generations issued, one of them failed.
C9_Witness ==
    /\ imagePc = "returned"
    /\ count = 7
    /\ Len(promises) = 5
    /\ Len(results) = 4

\* C10: with the default arguments, when every attempt fails with an overload
\* error the operation is invoked exactly 4 times, the waits are 1000, 2000
\* and 4000 ms and the last error is thrown; a successful attempt returns its
\* own value and is the last attempt.
C10_RetrySchedule ==
    /\ [](/\ (retryPc = "thrown" /\ IsOverloaded(error)) =>
               (attempts = 4 /\ waits = <<1000, 2000, 4000>> /\ error.attempt = 4)
          /\ retryPc = "returned" =>
               (result.attempt = attempts /\ result.value \in Values
                /\ waits = SubSeq(<<1000, 2000, 4000>>, 1, attempts - 1)))
    /\ [][(retryPc \in {"returned", "thrown"}) => (attempts' = attempts)]_vars

\* C10 witness: four overloaded attempts, the fourth error thrown.
C10_Witness ==
    /\ retryPc = "thrown"
    /\ IsOverloaded(error)
    /\ attempts = 4
    /\ waits = <<1000, 2000, 4000>>

\* C11: an attempt that fails with an error that is not an overload error
\* (isOverloaded false) is the last one: no wait is scheduled, the operation is
\* not invoked again and that error is thrown, whatever number of retries
\* remains.
C11_OtherErrorNotRetried ==
    /\ [][(retryPc = "call" /\ error' # error /\ ~IsOverloaded(error')) =>
            (retryPc' = "thrown" /\ waits' = waits /\ attempts' = attempts
             /\ error'.attempt = attempts)]_vars
    /\ [][(retryPc = "thrown") =>
            (attempts' = attempts /\ waits' = waits /\ error' = error)]_vars
    /\ [](retryPc = "thrown" /\ ~IsOverloaded(error) =>
            (error.attempt = attempts /\ Len(waits) = attempts - 1
             /\ retries = DefaultRetries - Len(waits)))

\* C11 witness: after one overloaded attempt, the second attempt fails with a
\* quota error and is thrown with two retries left.
C11_Witness ==
    /\ retryPc = "thrown"
    /\ ~IsOverloaded(error)
    /\ error.message = <<"quota", "exceeded">>
    /\ attempts = 2
    /\ retries = 2
    /\ waits = <<1000>>

\* C12 (as claimed): when a bulk cover generation completes with fewer images
\* than requested, zero included, imageGenerationError is set to a message
\* and handleGenerateImage is offered again.
C12_FewerImagesReported ==
    [][ \A r \in PendingSet, urls \in SeqsUpTo(Urls, MaxNumImages) :
          ((CoverResolve(r, urls) \/ RegenResolve(r, urls))
             /\ Len(urls) < SafeCount(r.count)) =>
            /\ imageGenerationError' # Null
            /\ GenerateImageOffered' ]_vars

\* C13: a cover request of the running session that returns no image or
\* rejects does not fail the text generation: it leaves the text, the buffer
\* and the delivered fragments alone, the stream goes on (each further
\* fragment is appended to the buffer), and the session ends with the text
\* equal to the concatenation of all fragments and isGenerating false.
C13_ImageFailureKeepsText ==
    /\ [][ \A r \in PendingSet :
             (r.own /\ (CoverResolve(r, <<>>) \/ CoverReject(r))) =>
               /\ generatedContent' = generatedContent
               /\ contentBuffer' = contentBuffer
               /\ delivered' = delivered
               /\ (genPc = "stream" => (genPc' = "stream" /\ isGenerating'))
               /\ (genPc = "image" => (genPc' = "done" /\ ~isGenerating')) ]_vars
    /\ [][ (genPc = "stream" /\ delivered' # delivered) =>
               /\ genPc' = "stream"
               /\ contentBuffer' = contentBuffer \o delivered'[Len(delivered')] ]_vars
    /\ [][ (StreamCompletes /\ ~OwnCoverPending(pending)) =>
               /\ genPc' = "done"
               /\ ~isGenerating'
               /\ generatedContent' = Concat(delivered) ]_vars
    /\ [](genPc = "done" => ~isGenerating)

\* C13 witness: a finished session whose cover request was rejected before
\* the stream delivered two fragments.
C13_Witness ==
    /\ genPc = "done"
    /\ ~isGenerating
    /\ config.generateImage
    /\ imageGenerationError = "Failed to generate image"
    /\ generatedImageUrls = <<>>
    /\ pending = EmptyBag
    /\ Len(delivered) = 2
    /\ lastWriter = "final"
    /\ generatedContent = Concat(delivered)

\* A step that applies or drops the result of a cover request.
CoverSettles == \E r \in PendingSet : r.kind = "cover" /\ pending' = RemoveRequest(pending, r)

\* C14: in a handleGenerate session with a cover request whose stream ends
\* normally, wherever the image result falls among the fragments: applying it
\* never changes the text, no stream step changes the image list or the
\* selection, the result of the session's own request becomes the image list,
\* and the finished session (nothing else in flight, no other writer) holds
\* the concatenation of the fragments and the returned images.
C14_TextAndImagesIndependent ==
    /\ [][CoverSettles =>
            (generatedContent' = generatedContent /\ contentBuffer' = contentBuffer)]_vars
    /\ [][StreamStep =>
            (generatedImageUrls' = generatedImageUrls
             /\ selectedImageIndex' = selectedImageIndex
             /\ coverAt' = coverAt)]_vars
    /\ [][ \A r \in PendingSet, urls \in SeqsUpTo(Urls, MaxNumImages) :
             (CoverResolve(r, urls) /\ r.own /\ ~r.stale /\ urls # <<>>) =>
                 generatedImageUrls' = urls ]_vars
    /\ [](( /\ genPc = "done"
            /\ coverAt.phase # "none"
            /\ coverAt.clean
            /\ ~superseded
            /\ lastWriter = "final" ) =>
              /\ generatedContent = Concat(delivered)
              /\ generatedImageUrls = coverAt.urls)

\* C14 witness: a finished session of two fragments whose image result came
\* between the first fragment and the second.
C14_Witness ==
    /\ genPc = "done"
    /\ coverAt.clean
    /\ coverAt.phase = "stream"
    /\ coverAt.chunks = 1
    /\ Len(coverAt.urls) = 1
    /\ Len(delivered) = 2
    /\ ~superseded
    /\ lastWriter = "final"
    /\ generatedImageUrls = coverAt.urls
    /\ generatedContent = Concat(delivered)

\* C15: insertText(before, after) on text T with selection [s, e] sets the
\* text to T[0:s] + before + T[s:e] + after + T[e:] and the selection to
\* [s + len(before), e + len(before)]; the result is len(before) + len(after)
\* longer than T and gives back T when the two inserted strings are deleted;
\* 'Hello world', [0,5], '**', '**' gives '**Hello** world' and [2,7].
C15_InsertTextSplices ==
    [][ (insertArg' # insertArg) =>
          LET T == insertArg'.text
              s == insertArg'.start
              e == insertArg'.end
              b == insertArg'.before
              a == insertArg'.after
              R == generatedContent'
          IN /\ T = generatedContent /\ s = selectionStart /\ e = selectionEnd
             /\ R = SubSeq(T, 1, s) \o b \o SubSeq(T, s + 1, e) \o a
                        \o SubSeq(T, e + 1, Len(T))
             /\ selectionStart' = s + Len(b)
             /\ selectionEnd' = e + Len(b)
             /\ Len(R) = Len(T) + Len(b) + Len(a)
             /\ SubSeq(R, 1, s) \o SubSeq(R, s + Len(b) + 1, e + Len(b))
                    \o SubSeq(R, e + Len(b) + Len(a) + 1, Len(R)) = T
             /\ (T = HelloWorld /\ s = 0 /\ e = 5 /\ b = <<"*", "*">> /\ a = b) =>
                   /\ R = <<"*", "*", "H", "e", "l", "l", "o", "*", "*",
                            " ", "w", "o", "r", "l", "d">>
                   /\ selectionStart' = 2 /\ selectionEnd' = 7 ]_vars

\* C15 witness: 'Hello world' with 'Hello' selected, made bold.
C15_Witness ==
    /\ insertArg = [text |-> HelloWorld, start |-> 0, end |-> 5,
                    before |-> <<"*", "*">>, after |-> <<"*", "*">>]
    /\ generatedContent = <<"*", "*", "H", "e", "l", "l", "o", "*", "*",
                            " ", "w", "o", "r", "l", "d">>
    /\ selectionStart = 2
    /\ selectionEnd = 7

\* C16 (as claimed): when the result of an image insertion is applied, the
\* text T of that moment becomes T[0:p] + image markdown + T[p:], p being the
\* cursor offset recorded when the insertion was requested, also when T has
\* changed while the image call was in flight; no existing text is dropped.
C16_InsertSplicesCurrentText ==
    [][ \A r \in PendingSet, url \in Urls :
          InsertResolve(r, url) =>
            generatedContent' =
                SubSeq(generatedContent, 1, r.idx) \o ImageMarkdown(url)
                    \o SubSeq(generatedContent, r.idx + 1, Len(generatedContent)) ]_vars

\* Some character of the edit is in the text.
HasEditText(text) == \E k \in 1..Len(text) : \E ed \in EditTexts : text[k] = ed[1]

\* C17: an edit of the text typed while a stream is active does not survive
\* the next flush: every flush, throttled or final, sets the text to the
\* accumulated buffer, the concatenation of the fragments, with nothing of
\* the edit in it; so does the end of a stream that completes.
C17_EditOverwrittenByFlush ==
    /\ [][FlushStep =>
            /\ generatedContent' = contentBuffer'
            /\ generatedContent' = Concat(delivered')
            /\ ~HasEditText(generatedContent')]_vars
    /\ [][StreamCompletes => generatedContent' = contentBuffer]_vars
    /\ []((editTrace = "overwritten" /\ lastWriter \in {"flush", "final"}) =>
             (generatedContent = lastFlushed \/ generatedContent = contentBuffer)
             /\ ~HasEditText(generatedContent))

\* C17 witness: the user typed into the text during the stream and the next
\* throttled flush has replaced it by the buffer.
C17_Witness ==
    /\ genPc = "stream"
    /\ editTrace = "overwritten"
    /\ lastWriter = "flush"
    /\ isEditingContent
    /\ Len(delivered) = 2
    /\ generatedContent = contentBuffer

\* C18: at most one text-generation session is in flight: isGenerating is
\* true exactly while a handleGenerate has not reached its finally block,
\* the Generate Article button is disabled during that time, and no
\* handleGenerate starts while another one is running.
C18_OneSessionAtATime ==
    /\ [](isGenerating <=> genPc \in {"stream", "image"})
    /\ [](genPc \in {"stream", "image"} => (isGenerating /\ GenerateDisabled))
    /\ [][HandleGenerate => (~isGenerating /\ genPc \notin {"stream", "image"})]_vars

\* C18 witness: the stream of a session has ended and its cover request is
\* still awaited: the button is disabled although a topic is set.
C18_Witness ==
    /\ genPc = "image"
    /\ isGenerating
    /\ config.topic # ""
    /\ GenerateDisabled
    /\ Len(delivered) = 2

\* The stored draft holds the current configuration, text and image list.
DraftIsCurrent ==
    /\ Len(autosaveDraft) = 1
    /\ autosaveDraft[1].config = config
    /\ autosaveDraft[1].content = generatedContent
    /\ autosaveDraft[1].imageUrls = generatedImageUrls

\* C19 (as claimed): after any change to the configuration, the text or the
\* image list, the stored draft holds exactly the current configuration,
\* text and image list.
C19_DraftSavedOnEveryChange ==
    [][ (<<config, generatedContent, generatedImageUrls>>'
            # <<config, generatedContent, generatedImageUrls>>) => DraftIsCurrent' ]_vars

\* C19 (amended): after any change to the configuration, the text or the
\* image list made while the topic is non-empty, the stored draft holds the
\* current configuration, text and image list; a change that leaves the
\* topic empty leaves the stored draft as it was.
C19_DraftSavedWhileTopicSet ==
    /\ [][ (<<config, generatedContent, generatedImageUrls>>'
               # <<config, generatedContent, generatedImageUrls>>) =>
             IF config'.topic # "" THEN DraftIsCurrent'
             ELSE autosaveDraft' = autosaveDraft ]_vars
    /\ [](config.topic # "" => DraftIsCurrent)

\* C19 witness: the topic was emptied and the text then edited: the stored
\* draft still holds the old topic and the old text.
C19_Witness ==
    /\ config.topic = ""
    /\ lastWriter = "edit"
    /\ Len(autosaveDraft) = 1
    /\ autosaveDraft[1].config.topic = "t"
    /\ autosaveDraft[1].content # generatedContent

(* ---------------- C20 ---------------- *)
IsTableLine(line) == Trim(line) # <<>> /\ Trim(line)[1] = "|"

\* i..j is a maximal run of consecutive table lines
IsTableRun(lines, i, j) ==
    /\ i <= j
    /\ \A k \in i..j : IsTableLine(lines[k])
    /\ (i = 1 \/ ~IsTableLine(lines[i - 1]))
    /\ (j = Len(lines) \/ ~IsTableLine(lines[j + 1]))

RECURSIVE Ascending(_)
Ascending(S) ==
    IF S = {} THEN <<>>
    ELSE LET m == CHOOSE x \in S : \A y \in S : x <= y
         IN <<m>> \o Ascending(S \ {m})

\* the trimmed, non-empty stretches between neighbouring bars of a row
CellsBetweenBars(row) ==
    LET bars == Ascending({0, Len(row) + 1} \cup {p \in 1..Len(row) : row[p] = "|"})
        stretch == [k \in 1..(Len(bars) - 1) |->
                        Trim(SubSeq(row, bars[k] + 1, bars[k + 1] - 1))]
    IN SelectSeq(stretch, LAMBDA c : c # <<>>)

TableOfRun(lines, i, j) ==
    LET body == [k \in 1..(j - i - 1) |-> CellsBetweenBars(Trim(lines[i + 1 + k]))]
    IN Block("table", CellsBetweenBars(Trim(lines[i])),
             SelectSeq(body, LAMBDA cells : cells # <<>>), <<>>)

\* the tables of the runs of two lines or more, in the order of the runs
ExpectedTables(lines) ==
    LET starts == Ascending({i \in 1..Len(lines) :
                      \E j \in (i + 1)..Len(lines) : IsTableRun(lines, i, j)})
    IN [k \in 1..Len(starts) |->
           TableOfRun(lines, starts[k],
                      CHOOSE j \in starts[k]..Len(lines) : IsTableRun(lines, starts[k], j))]

IsTable(block) == block.type = "table"

\* C20: every maximal run of lines whose trimmed form starts with '|' gives no
\* block when it has fewer than 2 lines and otherwise exactly one Table block:
\* header = the cells of line 1, line 2 dropped, one body row per later line
\* in order, lines of zero cells skipped; cells are the trimmed non-empty
\* pieces between bars. The example gives headers [A, B] and one row [1, 2].
C20_TableRunsBecomeTables ==
    mdPc = "rendered" =>
        /\ SelectSeq(mdBlocks, IsTable) = ExpectedTables(mdLines)
        /\ mdLines = ExampleTable =>
               mdBlocks = <<Block("table", << <<"A">>, <<"B">> >>,
                                  << << <<"1">>, <<"2">> >> >>, <<>>)>>
C20_Witness ==
    /\ mdPc = "rendered"
    /\ mdLines = ExampleTable
    /\ Len(mdBlocks) = 1
    /\ mdBlocks[1].headers = << <<"A">>, <<"B">> >>
    /\ mdBlocks[1].rows = << << <<"1">>, <<"2">> >> >>

(* ---------------- C21 ---------------- *)
StartsLikeImage(line) == StartsWith(Trim(line), <<"!", "[">>)

\* '](' at y with a ')' somewhere after it
ClosesAlt(t, y) ==
    /\ y + 1 <= Len(t) /\ t[y] = "]" /\ t[y + 1] = "("
    /\ \E z \in (y + 2)..Len(t) : t[z] = ")"

\* the line reads ![alt](url)...
HasImagePattern(line) == \E y \in 3..Len(Trim(line)) : ClosesAlt(Trim(line), y)

\* alt runs from after '![' to the first '](' that is closed, url from there
\* to the first ')'
ImageOfLine(line) ==
    LET t == Trim(line)
        y == LeastOf({k \in 3..Len(t) : ClosesAlt(t, k)})
        z == LeastOf({k \in (y + 2)..Len(t) : t[k] = ")"})
    IN ImageBlock(SubSeq(t, 3, y - 1), SubSeq(t, y + 2, z - 1))

IsHeadingLine(line) ==
    \/ StartsWith(line, <<"#", " ">>)
    \/ StartsWith(line, <<"#", "#", " ">>)
    \/ StartsWith(line, <<"#", "#", "#", " ">>)

IsListLine(line) ==
    StartsWith(Trim(line), <<"-", " ">>) \/ StartsWith(Trim(line), <<"*", " ">>)

\* a line that is no table row, image, heading or list item and is not blank
IsTextLine(line) ==
    /\ Trim(line) # <<>>
    /\ ~IsTableLine(line) /\ ~StartsLikeImage(line)
    /\ ~IsHeadingLine(line) /\ ~IsListLine(line)

RECURSIVE Flatten(_)
Flatten(seqs) == IF seqs = <<>> THEN <<>> ELSE Head(seqs) \o Flatten(Tail(seqs))

\* the image and paragraph blocks of the lines, in the order of the lines
ExpectedImagesAndParagraphs(lines) ==
    Flatten([k \in 1..Len(lines) |->
        IF StartsLikeImage(lines[k])
        THEN IF HasImagePattern(lines[k])
             THEN <<ImageOfLine(lines[k])>>
             ELSE <<ParagraphBlock(RenderedParts(lines[k]))>>
        ELSE IF IsTextLine(lines[k])
             THEN <<ParagraphBlock(RenderedParts(lines[k]))>>
             ELSE <<>>])

IsImageOrParagraph(block) == block.type \in {"img", "p"}

ACat == <<"a", " ", "c", "a", "t">>
CatUrl == <<"h", "t", "t", "p", ":", "/", "/", "x", "/", "y", ".", "p", "n", "g">>

\* C21: a line whose trimmed form starts with '![' and reads ![alt](url)
\* gives exactly one Image block with that alt and url ('![a cat](http://x/y.png)'
\* gives alt 'a cat' and url 'http://x/y.png'); a line that starts with '!['
\* and does not match is not dropped, it gives a Paragraph block.
C21_ImageOrParagraph ==
    mdPc = "rendered" =>
        /\ SelectSeq(mdBlocks, IsImageOrParagraph) = ExpectedImagesAndParagraphs(mdLines)
        /\ mdLines = <<ExampleImage>> => mdBlocks = <<ImageBlock(ACat, CatUrl)>>
        /\ mdLines = <<BrokenImage>> =>
               mdBlocks = <<ParagraphBlock(<<Run(FALSE, BrokenImage)>>)>>
C21_Witness ==
    /\ mdPc = "rendered"
    /\ mdLines = <<ExampleImage, BrokenImage>>
    /\ Len(mdBlocks) = 2
    /\ mdBlocks[1].type = "img" /\ mdBlocks[1].alt = ACat /\ mdBlocks[1].url = CatUrl
    /\ mdBlocks[2].type = "p"

(* ---------------- C22 ---------------- *)
\* i..j is a maximal run of consecutive list item lines
IsListRun(lines, i, j) ==
    /\ i <= j
    /\ \A k \in i..j : IsListLine(lines[k])
    /\ (i = 1 \/ ~IsListLine(lines[i - 1]))
    /\ (j = Len(lines) \/ ~IsListLine(lines[j + 1]))

ItemOfLine(line) == RenderedParts(SubSeq(Trim(line), 3, Len(Trim(line))))

\* one list per run, one item per line of the run, in the order of the runs
ExpectedLists(lines) ==
    LET starts == Ascending({i \in 1..Len(lines) :
                      \E j \in i..Len(lines) : IsListRun(lines, i, j)})
    IN [k \in 1..Len(starts) |->
           LET i == starts[k]
               j == CHOOSE e \in i..Len(lines) : IsListRun(lines, i, e)
           IN ListBlock([n \in 1..(j - i + 1) |-> ItemOfLine(lines[i + n - 1])])]

IsList(block) == block.type = "ul"

ItemOne == <<"i", "t", "e", "m", " ", "o", "n", "e">>
ItemTwo == <<"i", "t", "e", "m", " ", "t", "w", "o">>

\* C22: every maximal run of lines whose trimmed form starts with '- ' or
\* '* ' gives exactly one List block with one item per line in source order;
\* any other line ends the run and a run open at the end of input is emitted.
\* '- item one', '- **item two**' gives one list of two items, the second
\* holding the bold run 'item two'.
C22_ListRunsBecomeLists ==
    mdPc = "rendered" =>
        /\ SelectSeq(mdBlocks, IsList) = ExpectedLists(mdLines)
        /\ mdLines = ExampleList =>
               /\ Len(mdBlocks) = 1 /\ mdBlocks[1].type = "ul"
               /\ Len(mdBlocks[1].items) = 2
               /\ mdBlocks[1].items[1] = <<Run(FALSE, ItemOne)>>
               /\ \E k \in 1..Len(mdBlocks[1].items[2]) :
                      mdBlocks[1].items[2][k] = Run(TRUE, ItemTwo)
               /\ \A k \in 1..Len(mdBlocks[1].items[2]) :
                      mdBlocks[1].items[2][k] \in {Run(TRUE, ItemTwo), Run(FALSE, <<>>)}
C22_Witness ==
    /\ mdPc = "rendered"
    /\ Len(mdLines) = 3
    /\ mdLines[1] = ExampleList[1] /\ mdLines[2] = <<>> /\ mdLines[3] = ExampleList[2]
    /\ Len(mdBlocks) = 2
    /\ mdBlocks[1] = ListBlock(<< <<Run(FALSE, ItemOne)>> >>)
    /\ mdBlocks[2].type = "ul"

(* ---------------- C23 ---------------- *)
\* C23: for every source text the HTML export and the preview give the same
\* sequence of blocks: same number, kind, order and content, also for a table
\* run of a single row and for a line starting with '![' that does not match
\* the image pattern.
C23_ExportMatchesPreview ==
    (mdPc = "rendered" /\ htmlPc = "exported") => htmlBlocks = mdBlocks

(* ---------------- C27 ---------------- *)
\* C27: during the single pass of MarkdownView, after any prefix of the
\* lines, 'in-list' and 'in-table' are never both active and a non-empty list
\* buffer never coexists with a non-empty table buffer; after the flush at
\* the end of input both buffers are empty.
C27_ListAndTableExclusive ==
    /\ ~(mdParser.inList /\ mdParser.inTable)
    /\ ~(mdParser.listBuffer # <<>> /\ mdParser.tableBuffer # <<>>)
    /\ mdPc = "rendered" =>
           /\ mdParser.listBuffer = <<>> /\ mdParser.tableBuffer = <<>>
           /\ ~mdParser.inList /\ ~mdParser.inTable
C27_Witness ==
    /\ mdPc = "input"
    /\ Len(mdLines) = 3 /\ mdIndex = 2
    /\ IsListLine(mdLines[1]) /\ IsTableLine(mdLines[2])
    /\ mdParser.inTable /\ mdParser.tableBuffer # <<>>
    /\ ~mdParser.inList /\ mdParser.listBuffer = <<>>
    /\ Len(mdParser.elements) = 1 /\ mdParser.elements[1].type = "ul"

(* ---------------- C24 ---------------- *)
\* C24: an image edit that gives no result (editGeneratedImage returns null)
\* or fails with an error is handled as 'no result': afterwards the image
\* list and selectedImageIndex are exactly as they were before the edit was
\* started (the values handleEditImage read when it was called), and
\* isEditingImage is false.
C24_AsBeforeEditStarted ==
    [][\A r \in PendingSet, outcome \in {"null", "error"} :
          EditNoResult(r, outcome) =>
              /\ generatedImageUrls' = r.urls
              /\ selectedImageIndex' = r.idx
              /\ isEditingImage' = FALSE]_vars

\* C24 (amended): the step that handles the missing result changes neither
\* the image list nor selectedImageIndex: they are as they were just before
\* it, hence as before the edit was started wherever no other handler wrote
\* them meanwhile, and isEditingImage is false afterwards.
C24_FailedEditChangesNothing ==
    [][\A r \in PendingSet, outcome \in {"null", "error"} :
          EditNoResult(r, outcome) =>
              /\ generatedImageUrls' = generatedImageUrls
              /\ selectedImageIndex' = selectedImageIndex
              /\ (generatedImageUrls = r.urls /\ selectedImageIndex = r.idx) =>
                     (generatedImageUrls' = r.urls /\ selectedImageIndex' = r.idx)
              /\ isEditingImage' = FALSE]_vars
C24_Witness ==
    /\ alertText = "Failed to edit image."
    /\ generatedImageUrls = <<1, 2>>
    /\ selectedImageIndex = 0
    /\ ~isEditingImage
    /\ pending = EmptyBag

(* ---------------- C25 ---------------- *)
\* C25: on each fragment arrival at time t the fragment is appended to the
\* buffer at once; the Document text becomes the whole buffer and the
\* last-flush timestamp becomes t if and only if t - lastFlush > 32 ms
\* (strictly), otherwise both are unchanged. The timestamp starts at 0, so
\* the first fragment of a session is always flushed.
C25_FlushIffThrottleElapsed ==
    [][\A chunk \in Fragments, t \in DateNow(lastUpdateTime) :
          OnChunk(chunk, t) =>
              /\ contentBuffer' = contentBuffer \o chunk
              /\ IF t - lastUpdateTime > 32
                 THEN generatedContent' = contentBuffer' /\ lastUpdateTime' = t
                 ELSE generatedContent' = generatedContent
                          /\ lastUpdateTime' = lastUpdateTime
              /\ nChunks = 0 =>
                     (lastUpdateTime = 0 /\ generatedContent' = contentBuffer'
                          /\ lastUpdateTime' = t)]_vars
\* a second fragment came within the interval and waits in the buffer
C25_Witness ==
    /\ genPc = "stream"
    /\ nChunks = 2
    /\ lastWriter = "flush"
    /\ Len(delivered) = 2
    /\ lastFlushed = delivered[1]
    /\ generatedContent = delivered[1]
    /\ contentBuffer = delivered[1] \o delivered[2]
    /\ lastUpdateTime > 0

(* ---------------- C26 ---------------- *)
IsPrefix(a, b) == Len(a) <= Len(b) /\ SubSeq(b, 1, Len(a)) = a

\* C26: fragments are applied in the order delivered: while a stream runs and
\* no other writer has changed the Document text since the session started,
\* the text is a prefix of the concatenation of the fragments delivered so
\* far, and each flush replaces it by a text of which the previous text is a
\* prefix.
C26_TextIsPrefixOfDelivered ==
    /\ []((genPc = "stream" /\ editTrace = "none") =>
             IsPrefix(generatedContent, Concat(delivered)))
    /\ [][(FlushStep /\ editTrace = "none") =>
             /\ IsPrefix(generatedContent, generatedContent')
             /\ IsPrefix(generatedContent', Concat(delivered'))]_vars
    /\ [][(genPc = "stream" /\ genPc' = "stream") =>
             \/ delivered' = delivered /\ contentBuffer' = contentBuffer
             \/ \E chunk \in Fragments :
                    /\ delivered' = Append(delivered, chunk)
                    /\ contentBuffer' = contentBuffer \o chunk]_vars
\* two different fragments, both flushed, in the order they came
C26_Witness ==
    /\ genPc = "stream"
    /\ editTrace = "none"
    /\ delivered = << <<"a">>, <<"b">> >>
    /\ generatedContent = <<"a", "b">>
    /\ lastWriter = "flush"

(* ---------------- C28 ---------------- *)
\* C28: every handleGenerate that passes the empty-topic guard sets
\* isGenerating at its start and, the collaborator calls terminating, sets it
\* back to false in every outcome (the stream completes, its start rejects, it
\* fails midway); on normal completion with a cover image requested,
\* isGenerating becomes false only once that image request has settled.
C28_IsGeneratingEventuallyFalse ==
    /\ [][HandleGenerate => (config.topic # "" /\ isGenerating')]_vars
    /\ isGenerating ~> ~isGenerating
    /\ [][(isGenerating /\ ~isGenerating') =>
             \/ StreamFails
             \/ ~OwnCoverPending(pending')]_vars
    /\ [][(StreamCompletes /\ OwnCoverPending(pending)) => isGenerating']_vars
\* a session with a cover image ran to its end: the stream completed, then
\* the image arrived
C28_Witness ==
    /\ genPc = "done"
    /\ ~isGenerating
    /\ lastWriter = "final"
    /\ config.generateImage
    /\ generatedImageUrls # <<>>
    /\ Len(delivered) = 2
    /\ pending = EmptyBag

(* ---------------- C29 ---------------- *)
\* C29: handleGenerateImage empties the image list and resets the selection
\* to 0 when it issues the request; if the request then returns zero images
\* or throws, the image list is empty afterwards (the images that were there
\* before the regeneration are not put back), imageGenerationError is
\* non-null and isGeneratingImage is false.
C29_FailedRegenerationLeavesNoImage ==
    /\ [][HandleGenerateImage =>
             /\ generatedImageUrls' = <<>> /\ selectedImageIndex' = 0
             /\ BagCardinality(pending') = BagCardinality(pending) + 1]_vars
    /\ [][\A r \in PendingSet :
             (RegenResolve(r, <<>>) \/ RegenReject(r)) =>
                 /\ generatedImageUrls' = <<>>
                 /\ imageGenerationError' # Null
                 /\ ~isGeneratingImage']_vars

(* ---------------- C30 ---------------- *)
\* The fragments passed to onChunk are in strictly increasing position: none
\* was passed twice.
NoFragmentTwice ==
    \A i, j \in 1..Len(onChunkCalls) : i < j => onChunkCalls[i] < onChunkCalls[j]

\* C30: retry covers only the start of the text stream. An error raised
\* while the fragments are iterated, an overload error included, is not
\* retried: streamArticleGeneration rejects with it in the same step, with no
\* timer scheduled and no further attempt. Hence the request is never issued
\* again once its response is iterated, in particular not after a fragment
\* was delivered, and no fragment is delivered to onChunk twice.
C30_IterationErrorNotRetried ==
    /\ [][(iterPc = "iterating" /\ error' # error) =>
             /\ iterPc' = "rejected"
             /\ UNCHANGED <<retryPc, retries, delay, attempts, waits>>]_vars
    /\ [][(iterPc # "request" \/ onChunkCalls # <<>>) =>
             UNCHANGED <<retryPc, attempts, waits>>]_vars
    /\ [][(iterPc \in {"resolved", "rejected"}) =>
             UNCHANGED <<iterPc, onChunkCalls>>]_vars
    /\ [](onChunkCalls # <<>> => iterPc # "request")
    /\ []NoFragmentTwice

\* A fragment was delivered and then the iteration raised an overload error
\* while retries were left: the call rejected with it after one attempt.
C30_Witness ==
    /\ iterPc = "rejected"
    /\ onChunkCalls = <<1>>
    /\ IsOverloaded(error)
    /\ retries > 0
    /\ attempts = 1
    /\ waits = <<>>

====
